---- MODULE Spec2Model ----
(***************************************************************************)
(* Prysma: ingestion of receivables/payments and the conciliation engine.  *)
(*                                                                         *)
(* Amounts are exact decimals with two fractional digits, held as integer  *)
(* cents.  Dates are day numbers.  Record identifiers (uuid4 in the code)  *)
(* are the positions of the rows in their tables.  A display name is the   *)
(* sequence of its whitespace-separated words; the empty sequence stands   *)
(* for a missing (None / empty) name.                                      *)
(***************************************************************************)
EXTENDS Integers, Sequences, FiniteSets, TLC

VARIABLES
    receivables,   \* table "receivables": sequence of rows, id = position
    payments,      \* table "payments": sequence of rows, id = position
    sessions,      \* table "anonymous_sessions": id = token = position
    runs,          \* table "conciliation_runs"
    loaded,        \* run_conciliation's locals `receivables`, `payments` (row order of the last run)
    response,      \* what the last handler returned
    parser,        \* a fixed-width parse in progress: its input and its locals
    organizations, \* table "organizations": id = position
    users          \* table "users"

vars == <<receivables, payments, sessions, runs, loaded, response, parser,
          organizations, users>>

----------------------------------------------------------------------------
(* Nullable columns *)

NoneId == 0
NoneDate == -1
NoneStr == <<"None">>

Abs(x) == IF x < 0 THEN -x ELSE x
Min(a, b) == IF a <= b THEN a ELSE b
Max(a, b) == IF a >= b THEN a ELSE b

Range(s) == {s[i] : i \in 1..Len(s)}

\* Python truthiness of an optional string: None and "" are falsy
Truthy(s) == s # NoneStr /\ s # <<>>

----------------------------------------------------------------------------
(* Text.  A str is the sequence of its characters; None is NoneStr. *)

Space == " "

DecimalChars == {"0", "1", "2", "3", "4", "5", "6", "7", "8", "9"}

\* characters str.isdigit() accepts: the decimal digits and, e.g., superscript two
\* (byte 0xB2 in latin-1), which int() and Decimal() reject
DigitChars == DecimalChars \cup {"^2"}

DigitVal(c) ==
    CASE c = "0" -> 0 [] c = "1" -> 1 [] c = "2" -> 2 [] c = "3" -> 3 [] c = "4" -> 4
      [] c = "5" -> 5 [] c = "6" -> 6 [] c = "7" -> 7 [] c = "8" -> 8 [] c = "9" -> 9

Rep(c, n) == [i \in 1..n |-> c]

\* s[a:b] of Python, 0-based, clipped to the string
Slice(s, a, b) == SubSeq(s, Min(a, Len(s)) + 1, Min(b, Len(s)))

\* str.strip()
Strip(s) ==
    LET inked == {i \in 1..Len(s) : s[i] # Space} IN
    IF inked = {} THEN <<>>
    ELSE SubSeq(s, CHOOSE i \in inked : \A j \in inked : i <= j,
                   CHOOSE i \in inked : \A j \in inked : i >= j)

\* str.isdigit()
IsDigit(s) == s # <<>> /\ \A i \in 1..Len(s) : s[i] \in DigitChars

AllDecimal(s) == \A i \in 1..Len(s) : s[i] \in DecimalChars

\* the value of a string of decimal digits
RECURSIVE IntOf(_)
IntOf(s) == IF s = <<>> THEN 0 ELSE 10 * IntOf(SubSeq(s, 1, Len(s) - 1)) + DigitVal(s[Len(s)])

\* str.zfill(n)
ZFill(s, n) == IF Len(s) >= n THEN s ELSE Rep("0", n - Len(s)) \o s

LowerChars == <<"a", "b", "c", "d", "e", "f", "g", "h", "i", "j", "k", "l", "m", "n", "o", "p", "q", "r", "s", "t", "u", "v", "w", "x", "y", "z">>
UpperChars == <<"A", "B", "C", "D", "E", "F", "G", "H", "I", "J", "K", "L", "M", "N", "O", "P", "Q", "R", "S", "T", "U", "V", "W", "X", "Y", "Z">>

\* str.upper(), character by character
UpperChar(c) ==
    IF \E i \in 1..Len(LowerChars) : LowerChars[i] = c
    THEN UpperChars[CHOOSE i \in 1..Len(LowerChars) : LowerChars[i] = c]
    ELSE c

Upper(s) == [i \in 1..Len(s) |-> UpperChar(s[i])]

\* set(str.split()): the maximal runs of non-blank characters
RECURSIVE SplitFrom(_, _)
SplitFrom(s, word) ==
    IF s = <<>> THEN (IF word = <<>> THEN {} ELSE {word})
    ELSE IF Head(s) = Space
         THEN (IF word = <<>> THEN {} ELSE {word}) \cup SplitFrom(Tail(s), <<>>)
         ELSE SplitFrom(Tail(s), Append(word, Head(s)))

Words(s) == SplitFrom(s, <<>>)

\* a function's outcome: a value, or an exception raised
Ok(v) == [raised |-> FALSE, value |-> v]
Raised == [raised |-> TRUE]

----------------------------------------------------------------------------
(* Calendar: a date is its proleptic Gregorian ordinal (date.toordinal()) *)

IsLeap(y) == (y % 4 = 0 /\ y % 100 # 0) \/ y % 400 = 0

DaysInMonth(y, m) ==
    CASE m \in {1, 3, 5, 7, 8, 10, 12} -> 31
      [] m \in {4, 6, 9, 11} -> 30
      [] m = 2 -> IF IsLeap(y) THEN 29 ELSE 28

RECURSIVE DaysBeforeMonth(_, _)
DaysBeforeMonth(y, m) == IF m = 1 THEN 0 ELSE DaysBeforeMonth(y, m - 1) + DaysInMonth(y, m - 1)

Ordinal(y, m, d) ==
    (y - 1) * 365 + ((y - 1) \div 4) - ((y - 1) \div 100) + ((y - 1) \div 400)
    + DaysBeforeMonth(y, m) + d

ValidDate(y, m, d) == y >= 1 /\ m \in 1..12 /\ d >= 1 /\ d <= DaysInMonth(y, m)

----------------------------------------------------------------------------
(* models/receivable.py, models/payment.py: the rows and their column defaults *)

Receivable(debtor_cnpj, debtor_name, face_value, due_date, status, source) ==
    [organization_id |-> NoneId, session_id |-> NoneId,
     debtor_cnpj |-> debtor_cnpj, debtor_name |-> debtor_name,
     face_value |-> face_value, due_date |-> due_date,
     status |-> status, source |-> source]

Payment(payer_cnpj, payer_name, amount, date, bank_reference, source) ==
    [organization_id |-> NoneId, session_id |-> NoneId,
     amount |-> amount, date |-> date,
     payer_cnpj |-> payer_cnpj, payer_name |-> payer_name,
     bank_reference |-> bank_reference, source |-> source,
     matched_receivable_id |-> NoneId, match_status |-> "unmatched"]

AnonymousSession(files_processed) ==
    [files_processed |-> files_processed, converted_to_org_id |-> NoneId]

----------------------------------------------------------------------------
(* parser.py: normalize_cnpj, parse_monetary_value, parse_date *)

\* s.replace(c, "") for every c in chars
Without(s, chars) == SelectSeq(s, LAMBDA c : c \notin chars)

\* normalize_cnpj(value)
NormalizeCnpj(value) == Without(Strip(value), {".", "-", "/"})

\* s.replace("R$", "")
RECURSIVE RemoveCurrency(_)
RemoveCurrency(s) ==
    IF Len(s) < 2 THEN s
    ELSE IF s[1] = "R" /\ s[2] = "$" THEN RemoveCurrency(SubSeq(s, 3, Len(s)))
    ELSE <<s[1]>> \o RemoveCurrency(Tail(s))

\* s.replace(a, b) on single characters
ReplaceChar(s, a, b) == [i \in 1..Len(s) |-> IF s[i] = a THEN b ELSE s[i]]

\* an exact decimal: num / 10^scale
Dec(num, scale) == [num |-> num, scale |-> scale]
NoneDec == [none |-> TRUE]

\* Decimal("NaN"): not a number, equal to nothing, unordered
NaNDec == [nan |-> TRUE]

\* the text of a quiet NaN, which Decimal() accepts in any letter case
IsNaNText(v) == Len(v) = 3 /\ Upper(v) = <<"N", "A", "N">>

RECURSIVE Pow10(_)
Pow10(n) == IF n = 0 THEN 1 ELSE 10 * Pow10(n - 1)

\* Decimal(v) on [sign] digits [. digits] and on [sign] NaN; any other text
\* of the files modelled is InvalidOperation (exponents, infinities and
\* digit separators do not occur in them)
DecimalOf(v) ==
    LET signed == v # <<>> /\ v[1] \in {"-", "+"}
        body == IF signed THEN Tail(v) ELSE v
        dots == {i \in 1..Len(body) : body[i] = "."}
        digits == Without(body, {"."})
    IN  IF IsNaNText(body) THEN NaNDec
        ELSE IF digits = <<>> \/ ~AllDecimal(digits) \/ Cardinality(dots) > 1 THEN NoneDec
        ELSE LET scale == IF dots = {} THEN 0
                          ELSE Len(body) - (CHOOSE i \in dots : TRUE)
                 magnitude == IntOf(digits)
             IN  Dec(IF signed /\ v[1] = "-" THEN -magnitude ELSE magnitude, scale)

HasChar(v, c) == \E i \in 1..Len(v) : v[i] = c

ParseMonetaryValueKeepDots(value) ==
    IF value = NoneStr \/ Strip(value) = <<>> THEN NoneDec
    ELSE DecimalOf(ReplaceChar(Without(RemoveCurrency(Strip(value)), {Space}), ",", "."))

\* parse_monetary_value(value)
ParseMonetaryValue(value) ==
    IF value = NoneStr \/ Strip(value) = <<>> THEN NoneDec
    ELSE LET v == Without(RemoveCurrency(Strip(value)), {Space}) IN
         IF HasChar(v, ",") /\ HasChar(v, ".")
         THEN DecimalOf(ReplaceChar(Without(v, {"."}), ",", "."))
         ELSE IF HasChar(v, ",")
         THEN DecimalOf(ReplaceChar(v, ",", "."))
         ELSE DecimalOf(v)

\* a decimal of at most two fractional digits as a whole number of cents
Cents(dec) == dec.num * Pow10(2 - dec.scale)

\* str.split(sep) on a single-character separator
RECURSIVE SplitOn(_, _, _)
SplitOn(s, sep, part) ==
    IF s = <<>> THEN <<part>>
    ELSE IF Head(s) = sep THEN <<part>> \o SplitOn(Tail(s), sep, <<>>)
    ELSE SplitOn(Tail(s), sep, Append(part, Head(s)))

DayOrMonthText(t) == Len(t) \in 1..2 /\ AllDecimal(t)
YearText(t) == Len(t) = 4 /\ AllDecimal(t)

\* datetime.strptime(v, fmt).date() for a three-field format: the separator and
\* the position of day, month and year among the fields
Strptime(v, fmt) ==
    LET parts == SplitOn(v, fmt.sep, <<>>) IN
    IF Len(parts) = 3 /\ DayOrMonthText(parts[fmt.d]) /\ DayOrMonthText(parts[fmt.m])
       /\ YearText(parts[fmt.y])
       /\ ValidDate(IntOf(parts[fmt.y]), IntOf(parts[fmt.m]), IntOf(parts[fmt.d]))
    THEN Ordinal(IntOf(parts[fmt.y]), IntOf(parts[fmt.m]), IntOf(parts[fmt.d]))
    ELSE NoneDate

\* d/m/Y, Y-m-d, d-m-Y, d.m.Y, m/d/Y, tried in this order
DATE_FORMATS ==
    <<[sep |-> "/", d |-> 1, m |-> 2, y |-> 3],
      [sep |-> "-", d |-> 3, m |-> 2, y |-> 1],
      [sep |-> "-", d |-> 1, m |-> 2, y |-> 3],
      [sep |-> ".", d |-> 1, m |-> 2, y |-> 3],
      [sep |-> "/", d |-> 2, m |-> 1, y |-> 3]>>

RECURSIVE TryFormats(_, _)
TryFormats(v, k) ==
    IF k > Len(DATE_FORMATS) THEN NoneDate
    ELSE LET got == Strptime(v, DATE_FORMATS[k])
         IN  IF got # NoneDate THEN got ELSE TryFormats(v, k + 1)

\* parse_date(value)
ParseDate(value) ==
    IF value = NoneStr \/ Strip(value) = <<>> THEN NoneDate
    ELSE TryFormats(Strip(value), 1)

----------------------------------------------------------------------------
(* parser.py: CNPJ_PATTERN, CPF_PATTERN, detect_column_type, _detect_file_type *)

Digit(n) == [digits |-> n]
Opt(c) == [optional |-> c]

\* \d{2}\.?\d{3}\.?\d{3}/?\d{4}-?\d{2}
CNPJ_PATTERN == <<Digit(2), Opt("."), Digit(3), Opt("."), Digit(3), Opt("/"), Digit(4),
                  Opt("-"), Digit(2)>>

\* \d{3}\.?\d{3}\.?\d{3}-?\d{2}
CPF_PATTERN == <<Digit(3), Opt("."), Digit(3), Opt("."), Digit(3), Opt("-"), Digit(2)>>

\* where a match of pat[k..] starting at text[pos] ends (exclusive), 0 if none;
\* an optional separator is no digit, so taking it when present loses no match
RECURSIVE MatchFrom(_, _, _, _)
MatchFrom(text, pos, pat, k) ==
    IF k > Len(pat) THEN pos
    ELSE IF "digits" \in DOMAIN pat[k]
    THEN LET n == pat[k].digits IN
         IF pos + n - 1 <= Len(text) /\ AllDecimal(SubSeq(text, pos, pos + n - 1))
         THEN MatchFrom(text, pos + n, pat, k + 1)
         ELSE 0
    ELSE IF pos <= Len(text) /\ text[pos] = pat[k].optional
         THEN MatchFrom(text, pos + 1, pat, k + 1)
         ELSE MatchFrom(text, pos, pat, k + 1)

\* re.compile("^...$").match(text)
FullMatch(pat, text) == MatchFrom(text, 1, pat, 1) = Len(text) + 1

\* re.search(pattern, text).group(), or None
Search(pat, text) ==
    LET starts == {i \in 1..Len(text) : MatchFrom(text, i, pat, 1) # 0} IN
    IF starts = {} THEN NoneStr
    ELSE LET first == CHOOSE i \in starts : \A j \in starts : i <= j IN
         SubSeq(text, first, MatchFrom(text, first, pat, 1) - 1)

LowerChar(c) ==
    IF \E i \in 1..Len(UpperChars) : UpperChars[i] = c
    THEN LowerChars[CHOOSE i \in 1..Len(UpperChars) : UpperChars[i] = c]
    ELSE c

Lower(s) == [i \in 1..Len(s) |-> LowerChar(s[i])]

\* hint in h
Contains(h, hint) ==
    \E i \in 1..(Len(h) - Len(hint) + 1) : SubSeq(h, i, i + Len(hint) - 1) = hint

AnyHint(h, hints) == \E hint \in hints : Contains(h, hint)

NameHeaderHints ==
    {<<"n", "o", "m", "e">>,
     <<"n", "a", "m", "e">>,
     <<"r", "a", "z", "a", "o">>,
     <<"r", "a", "z", "ã", "o">>}
CnpjHeaderHints ==
    {<<"c", "n", "p", "j">>,
     <<"c", "p", "f">>,
     <<"d", "o", "c", "u", "m", "e", "n", "t", "o">>,
     <<"d", "o", "c">>}
VALUE_HINTS ==
    {<<"v", "a", "l", "o", "r">>,
     <<"v", "a", "l", "u", "e">>,
     <<"m", "o", "n", "t", "a", "n", "t", "e">>,
     <<"a", "m", "o", "u", "n", "t">>,
     <<"t", "o", "t", "a", "l">>,
     <<"f", "a", "c", "e", "_", "v", "a", "l", "u", "e">>,
     <<"v", "l", "_">>,
     <<"v", "l", "r">>}
DATE_HINTS ==
    {<<"d", "a", "t", "a">>,
     <<"d", "a", "t", "e">>,
     <<"v", "e", "n", "c", "i", "m", "e", "n", "t", "o">>,
     <<"d", "u", "e">>,
     <<"d", "t", "_">>,
     <<"e", "m", "i", "s", "s", "a", "o">>,
     <<"p", "a", "g", "a", "m", "e", "n", "t", "o">>}
GenericHeaderHints ==
    {<<"s", "a", "c", "a", "d", "o">>,
     <<"p", "a", "g", "a", "d", "o", "r">>,
     <<"c", "e", "d", "e", "n", "t", "e">>,
     <<"d", "e", "v", "e", "d", "o", "r">>}

NonEmpty(sample_values) == SelectSeq(sample_values, LAMBDA v : v # NoneStr /\ Strip(v) # <<>>)

LooksLikeCnpj(v) == FullMatch(CNPJ_PATTERN, Strip(v)) \/ FullMatch(CPF_PATTERN, Strip(v))

AtLeastTenths(matches, total, tenths) == 10 * matches >= tenths * total

\* matches > total * (tenths / 10); the float product is exact or rounds to
\* the exact value for the at most 20 samples a column has
MoreThanTenths(matches, total, tenths) == 10 * matches > tenths * total

DetectColumnTypeCnpjFirst(header, sample_values) ==
    LET h == Strip(Lower(header))
        non_empty == NonEmpty(sample_values)
        cnpj_matches == Len(SelectSeq(non_empty, LooksLikeCnpj))
        value_matches == Len(SelectSeq(non_empty, LAMBDA v : ParseMonetaryValue(v) # NoneDec))
        date_matches == Len(SelectSeq(non_empty, LAMBDA v : ParseDate(v) # NoneDate))
    IN  IF AnyHint(h, CnpjHeaderHints) THEN "cnpj"
        ELSE IF AnyHint(h, NameHeaderHints) THEN "name"
        ELSE IF AnyHint(h, VALUE_HINTS) THEN "value"
        ELSE IF AnyHint(h, DATE_HINTS) THEN "date"
        ELSE IF AnyHint(h, GenericHeaderHints)
             THEN IF MoreThanTenths(cnpj_matches, Len(non_empty), 3) THEN "cnpj" ELSE "name"
        ELSE IF non_empty = <<>> THEN "unknown"
        ELSE IF MoreThanTenths(cnpj_matches, Len(non_empty), 5) THEN "cnpj"
        ELSE IF MoreThanTenths(value_matches, Len(non_empty), 7) THEN "value"
        ELSE IF MoreThanTenths(date_matches, Len(non_empty), 7) THEN "date"
        ELSE "name"

\* detect_column_type(header, sample_values)
DetectColumnType(header, sample_values) ==
    LET h == Strip(Lower(header))
        non_empty == NonEmpty(sample_values)
        cnpj_matches == Len(SelectSeq(non_empty, LooksLikeCnpj))
        value_matches == Len(SelectSeq(non_empty, LAMBDA v : ParseMonetaryValue(v) # NoneDec))
        date_matches == Len(SelectSeq(non_empty, LAMBDA v : ParseDate(v) # NoneDate))
    IN  IF AnyHint(h, NameHeaderHints) THEN "name"
        ELSE IF AnyHint(h, CnpjHeaderHints) THEN "cnpj"
        ELSE IF AnyHint(h, VALUE_HINTS) THEN "value"
        ELSE IF AnyHint(h, DATE_HINTS) THEN "date"
        ELSE IF AnyHint(h, GenericHeaderHints)
             THEN IF MoreThanTenths(cnpj_matches, Len(non_empty), 3) THEN "cnpj" ELSE "name"
        ELSE IF non_empty = <<>> THEN "unknown"
        ELSE IF MoreThanTenths(cnpj_matches, Len(non_empty), 5) THEN "cnpj"
        ELSE IF MoreThanTenths(value_matches, Len(non_empty), 7) THEN "value"
        ELSE IF MoreThanTenths(date_matches, Len(non_empty), 7) THEN "date"
        ELSE "name"

payment_hints ==
    {<<"p", "a", "g", "a", "m", "e", "n", "t", "o">>,
     <<"p", "a", "g", "a", "d", "o", "r">>,
     <<"p", "a", "g", "o">>,
     <<"p", "a", "g", "a">>,
     <<"p", "a", "y", "m", "e", "n", "t">>,
     <<"p", "a", "i", "d">>,
     <<"e", "x", "t", "r", "a", "t", "o">>}
receivable_hints ==
    {<<"r", "e", "c", "e", "b", "i", "v", "e", "l">>,
     <<"r", "e", "c", "e", "b", "i", "v", "e", "i", "s">>,
     <<"s", "a", "c", "a", "d", "o">>,
     <<"c", "e", "d", "e", "n", "t", "e">>,
     <<"v", "e", "n", "c", "i", "m", "e", "n", "t", "o">>,
     <<"r", "e", "c", "e", "i", "v", "a", "b", "l", "e">>}

\* " ".join(h.lower() for h in headers)
RECURSIVE JoinLower(_)
JoinLower(headers) ==
    IF headers = <<>> THEN <<>>
    ELSE IF Len(headers) = 1 THEN Lower(headers[1])
    ELSE Lower(headers[1]) \o <<Space>> \o JoinLower(Tail(headers))

\* _detect_file_type(headers)
DetectFileType(headers) ==
    LET all_headers == JoinLower(headers)
        pay_score == Cardinality({h \in payment_hints : Contains(all_headers, h)})
        rec_score == Cardinality({h \in receivable_hints : Contains(all_headers, h)})
    IN  IF pay_score > rec_score THEN "payment" ELSE "receivable"

----------------------------------------------------------------------------
(* parser.py: the fixed-width (CNAB) field decoders *)

\* line 349: Decimal(f"{int(integer_part)}.{decimal_part}"), in cents
CnabCents(integer_part, decimal_part) ==
    IF integer_part = <<>> \/ ~AllDecimal(integer_part)
    THEN Raised                        \* int(integer_part): ValueError
    ELSE IF ~AllDecimal(decimal_part)
         THEN Raised                   \* Decimal(...): InvalidOperation
         ELSE Ok(IntOf(integer_part) * 100 + IntOf(decimal_part))

\* lines 345-349, on the stripped field
CnabValueOf(raw) ==
    IF raw = <<>> \/ ~IsDigit(raw) THEN Ok(0)
    ELSE CnabCents(SubSeq(raw, 1, Len(raw) - 2),
                   SubSeq(raw, Max(Len(raw) - 2, 0) + 1, Len(raw)))

\* _cnab_parse_value(raw, decimals=2), in cents
CnabParseValue(field) == CnabValueOf(Strip(field))

\* date(y, m, d), or None where strptime raises ValueError
DateOrNone(y, m, d) == IF ValidDate(y, m, d) THEN Ordinal(y, m, d) ELSE NoneDate

\* %y of strptime: 00-68 are 2000-2068, 69-99 are 1969-1999
CenturyOf(yy) == IF yy <= 68 THEN 2000 + yy ELSE 1900 + yy

\* lines 355-364, on the stripped field: "%d%m%Y" / "%d%m%y"
CnabDateOf(raw) ==
    IF raw = <<>> \/ raw = Rep("0", 8) \/ raw = Rep("0", 6) \/ ~IsDigit(raw) THEN NoneDate
    ELSE IF ~AllDecimal(raw) THEN NoneDate
    ELSE IF Len(raw) = 8
    THEN DateOrNone(IntOf(SubSeq(raw, 5, 8)), IntOf(SubSeq(raw, 3, 4)),
                    IntOf(SubSeq(raw, 1, 2)))
    ELSE IF Len(raw) = 6
    THEN DateOrNone(CenturyOf(IntOf(SubSeq(raw, 5, 6))), IntOf(SubSeq(raw, 3, 4)),
                    IntOf(SubSeq(raw, 1, 2)))
    ELSE NoneDate

\* _cnab_parse_date(raw)
CnabParseDate(field) == CnabDateOf(Strip(field))

\* _cnab_extract_cnpj(raw)
CnabExtractCnpj(field) ==
    LET raw == Strip(field) IN
    IF raw = <<>> \/ raw = Rep("0", Len(raw)) THEN NoneStr
    ELSE IF Len(raw) <= 11 THEN ZFill(raw, 11) ELSE ZFill(raw, 14)

\* "x if x else None" on a stripped field
OrNone(text) == IF text = <<>> THEN NoneStr ELSE text

\* "a or b" on two strings
Either(a, b) == IF Truthy(a) THEN a ELSE b

Code06 == <<"0", "6">>
Code07 == <<"0", "7">>
Code10 == <<"1", "0">>
Code17 == <<"1", "7">>

CNAB_PAID_CODES_06Only == {Code06}

\* occurrence codes that mean paid/settled
CNAB_PAID_CODES == {Code06, Code07, Code10, Code17}

----------------------------------------------------------------------------
(* parser.py: parse_cnab240_content.  A file is the sequence of its lines; a
   line is given by its length and the text at its offsets (blank elsewhere). *)

RenderLine(line) ==
    [i \in 1..line.len |->
        LET hit == {f \in line.fields : f.at < i /\ i <= f.at + Len(f.text)} IN
        IF hit = {} THEN Space
        ELSE LET g == CHOOSE f \in hit : TRUE IN g.text[i - g.at]]

Cnpj1 == <<"1", "2", "3", "4", "5", "6", "7", "8", "0", "0", "0", "1", "9", "0">>
Cnpj2 == <<"9", "8", "7", "6", "5", "4", "3", "2", "0", "0", "0", "1", "1", "0">>

NameAcmeLtda == <<"A", "c", "m", "e", " ", "L", "t", "d", "a">>
NameAcmeFoodsSa == <<"A", "C", "M", "E", " ", "F", "O", "O", "D", "S", " ", "S", "A">>
NameAcmeLong == <<"A", "C", "M", "E", " ", "B", "R", "A", "S", "I", "L", " ", "C", "O", "M", "E", "R", "C", "I", "O", " ", "I", "M", "P", "O", "R", "T", "A", "C", "A", "O">>
NamePixAcme == <<"p", "i", "x", " ", " ", "a", "c", "m", "e">>
NameAcmeFoods == <<"a", "c", "m", "e", " ", "f", "o", "o", "d", "s">>
NamePix == <<" ", "P", "I", "X", " ">>

Field(at, text) == [at |-> at, text |-> text]

Amount1000 == Rep("0", 9) \o <<"1", "0", "0", "0", "0", "0">>
Amount1030 == Rep("0", 9) \o <<"1", "0", "3", "0", "0", "0">>
AmountZero == Rep("0", 15)
AmountBad == Rep("0", 14) \o <<"^2">>
Date10032024 == <<"1", "0", "0", "3", "2", "0", "2", "4">>
Date12032024 == <<"1", "2", "0", "3", "2", "0", "2", "4">>
Inscricao1 == <<"0">> \o Cnpj1
NossoNumero1 == <<"0", "0", "0", "0", "4", "7", "1", "1">>

TitleLine(len, segmento, ocorrencia, valor_titulo) ==
    [len |-> len,
     fields |-> {Field(7, <<"3">>), Field(13, <<segmento>>), Field(15, ocorrencia),
                 Field(40, NossoNumero1), Field(73, Date10032024),
                 Field(81, valor_titulo), Field(132, <<"2">>),
                 Field(133, Inscricao1), Field(148, NameAcmeLtda)}]

SettlementLine(len, segmento, valor_pago, data_credito) ==
    [len |-> len,
     fields |-> {Field(7, <<"3">>), Field(13, <<segmento>>),
                 Field(17, AmountZero), Field(32, AmountZero),
                 Field(77, valor_pago), Field(137, Date10032024),
                 Field(145, data_credito)}]

HeaderLine == [len |-> 240, fields |-> {Field(7, <<"0">>), Field(13, <<"T">>)}]

Lines240 ==
    {TitleLine(240, "T", Code06, Amount1000),
     TitleLine(240, "t", <<"0", "2">>, Amount1000),
     TitleLine(241, "T", Code17, AmountZero),
     TitleLine(240, "T", Code06, AmountBad),
     TitleLine(239, "T", Code06, Amount1000),
     SettlementLine(240, "U", Amount1030, Date12032024),
     SettlementLine(240, "u", AmountZero, Rep("0", 8)),
     SettlementLine(240, "U", AmountBad, Date12032024),
     SettlementLine(100, "U", Amount1000, Date12032024),
     TitleLine(240, "Y", Code06, Amount1000),
     HeaderLine}

Amount13(cents) == Rep("0", 7) \o cents
Date100324 == <<"1", "0", "0", "3", "2", "4">>

DetailLine(len, tipo_registro, ocorrencia, valor_titulo, valor_pago) ==
    [len |-> len,
     fields |-> {Field(0, <<tipo_registro>>), Field(62, NossoNumero1),
                 Field(108, ocorrencia), Field(110, Date100324),
                 Field(146, Date100324), Field(152, valor_titulo),
                 Field(240, Rep("0", 13)), Field(253, valor_pago),
                 Field(266, Rep("0", 13)), Field(295, Date100324),
                 Field(324, NameAcmeLtda)}]

Lines400 ==
    {DetailLine(400, "1", Code06, Amount13(<<"1", "0", "0", "0", "0", "0">>),
                Amount13(<<"1", "0", "0", "0", "0", "0">>)),
     DetailLine(400, "1", <<"0", "2">>, Rep("0", 13), Rep("0", 13)),
     DetailLine(400, "0", Code06, Rep("0", 13), Rep("0", 13)),
     DetailLine(399, "1", Code06, Amount13(<<"1", "0", "0", "0", "0", "0">>),
                Amount13(<<"1", "0", "0", "0", "0", "0">>)),
     DetailLine(400, "1", Code06, Rep("0", 12) \o <<"^2">>,
                Amount13(<<"1", "0", "0", "0", "0", "0">>)),
     DetailLine(400, "1", Code10, Amount13(<<"1", "0", "3", "0", "0", "0">>),
                Rep("0", 12) \o <<"^2">>),
     DetailLine(400, "1", Code07, Amount13(<<"1", "0", "0", "0", "0", "0">>), Rep("0", 13)),
     DetailLine(400, "1", <<"0", "2">>, Amount13(<<"1", "0", "0", "0", "0", "0">>),
                Amount13(<<"1", "0", "0", "0", "0", "0">>)),
     DetailLine(400, "1", Code17, Amount13(<<"1", "0", "3", "0", "0", "0">>),
                Amount13(<<"1", "0", "0", "0", "0", "0">>))}

\* the text of every line the files are made of
Text == [l \in Lines240 \cup Lines400 |-> RenderLine(l)]

Render(line) == Text[line]

\* text.split("\n") keeping the lines with l.strip()
NonBlankLines(content) ==
    SelectSeq(content, LAMBDA l : \E i \in 1..l.len : Render(l)[i] # Space)

NoSegT == [line |-> 0]

RowError(row) == [row |-> row]

NoParse ==
    [lines |-> <<>>, line_num |-> 0, seg_t |-> NoSegT,
     receivables |-> <<>>, payments |-> <<>>, errors |-> <<>>, done |-> TRUE]

Cnab240Start ==
    [seg_t |-> NoSegT, receivables |-> <<>>, payments |-> <<>>, errors |-> <<>>]

\* lines 426-438: the decoded title is buffered, or the row is in error
BufferTitle(st, line_num, codigo_ocorrencia, nosso_numero, numero_documento, vencimento, valor_titulo, payer_cnpj, payer_name) ==
    IF valor_titulo.raised
    THEN [st EXCEPT !.errors = Append(@, RowError(line_num)), !.seg_t = NoSegT]
    ELSE [st EXCEPT !.seg_t =
            [ocorrencia |-> codigo_ocorrencia,
             nosso_numero |-> nosso_numero,
             numero_documento |-> numero_documento,
             vencimento |-> vencimento,
             valor_titulo |-> valor_titulo.value,
             payer_cnpj |-> payer_cnpj,
             payer_name |-> payer_name,
             line |-> line_num]]

\* lines 413-438: segment T is decoded and buffered
Cnab240Title(st, line, line_num) ==
    BufferTitle(st, line_num,
                Strip(Slice(line, 15, 17)),
                Strip(Slice(line, 40, 48)),
                Strip(Slice(line, 58, 68)),
                CnabParseDate(Slice(line, 73, 81)),
                CnabParseValue(Slice(line, 81, 96)),
                CnabExtractCnpj(Slice(line, 133, 148)),
                OrNone(Strip(Slice(line, 148, 178))))

PaysWhenPaid(is_paid, valor_pago) == is_paid

\* lines 461 and 529: a payment only if paid and the settled amount is positive
PaysWhen(is_paid, valor_pago) == is_paid /\ valor_pago > 0

\* lines 467 and 534: data_credito or data_ocorrencia
FirstDate(data_credito, data_ocorrencia) ==
    IF data_credito # NoneDate THEN data_credito ELSE data_ocorrencia

SettleKeepsTitle(st, seg_t, line_num, valor_pago, data_ocorrencia, data_credito, juros_multa, desconto) ==
    IF valor_pago.raised \/ juros_multa.raised \/ desconto.raised
    THEN [st EXCEPT !.errors = Append(@, RowError(line_num)), !.seg_t = seg_t]
    ELSE [st EXCEPT
            !.receivables =
                Append(@, Receivable(seg_t.payer_cnpj, seg_t.payer_name,
                                     seg_t.valor_titulo, seg_t.vencimento,
                                     IF seg_t.ocorrencia \in CNAB_PAID_CODES
                                     THEN "conciliated" ELSE "pending",
                                     "cnab240")),
            !.payments =
                IF PaysWhen(seg_t.ocorrencia \in CNAB_PAID_CODES, valor_pago.value)
                THEN Append(@, Payment(seg_t.payer_cnpj, seg_t.payer_name,
                                       valor_pago.value,
                                       FirstDate(data_credito, data_ocorrencia),
                                       OrNone(Either(seg_t.nosso_numero,
                                                     seg_t.numero_documento)),
                                       "cnab240"))
                ELSE @,
            !.seg_t = seg_t]

\* lines 448-474: the receivable and the payment of a title and its settlement
Settle(st, seg_t, line_num, valor_pago, data_ocorrencia, data_credito, juros_multa, desconto) ==
    IF valor_pago.raised \/ juros_multa.raised \/ desconto.raised
    THEN [st EXCEPT !.errors = Append(@, RowError(line_num)), !.seg_t = NoSegT]
    ELSE [st EXCEPT
            !.receivables =
                Append(@, Receivable(seg_t.payer_cnpj, seg_t.payer_name,
                                     seg_t.valor_titulo, seg_t.vencimento,
                                     IF seg_t.ocorrencia \in CNAB_PAID_CODES
                                     THEN "conciliated" ELSE "pending",
                                     "cnab240")),
            !.payments =
                IF PaysWhen(seg_t.ocorrencia \in CNAB_PAID_CODES, valor_pago.value)
                THEN Append(@, Payment(seg_t.payer_cnpj, seg_t.payer_name,
                                       valor_pago.value,
                                       FirstDate(data_credito, data_ocorrencia),
                                       OrNone(Either(seg_t.nosso_numero,
                                                     seg_t.numero_documento)),
                                       "cnab240"))
                ELSE @,
            !.seg_t = NoSegT]

\* lines 440-474: segment U completes the buffered title
Cnab240Settlement(st, line, line_num) ==
    Settle(st, st.seg_t, line_num,
           CnabParseValue(Slice(line, 77, 92)),
           CnabParseDate(Slice(line, 137, 145)),
           CnabParseDate(Slice(line, 145, 153)),
           CnabParseValue(Slice(line, 17, 32)),
           CnabParseValue(Slice(line, 32, 47)))

LineTooShortNever(line) == FALSE

\* lines 403-404: len(line) < 240
LineTooShort(line) == Len(line) < 240
IsDetail(line) == line[8] = "3"
Segmento(line) == UpperChar(line[14])

\* lines 402-474: one iteration of the loop
Cnab240Line(st, line, line_num) ==
    IF LineTooShort(line) THEN st
    ELSE IF ~IsDetail(line) THEN st
    ELSE IF Segmento(line) = "T" THEN Cnab240Title(st, line, line_num)
    ELSE IF Segmento(line) = "U" /\ st.seg_t # NoSegT
         THEN Cnab240Settlement(st, line, line_num)
    ELSE st

RECURSIVE Cnab240Lines(_, _, _)
Cnab240Lines(st, lines, k) ==
    IF k > Len(lines) THEN st
    ELSE Cnab240Lines(Cnab240Line(st, Render(lines[k]), k), lines, k + 1)

ParseResult(receivables_, payments_, errors_) ==
    [receivables |-> receivables_, payments |-> payments_, errors |-> errors_]

\* lines 476 and 542: the result dict of the records and errors collected
Collected(st) == Ok(ParseResult(st.receivables, st.payments, st.errors))

\* parse_cnab240_content(content); latin-1 decodes every byte string, so the
\* decoding never fails
ParseCnab240Content(content) ==
    Collected(Cnab240Lines(Cnab240Start, NonBlankLines(content), 1))

----------------------------------------------------------------------------
(* parser.py: _build_records, parse_csv_content, parse_xlsx_content.  A table
   file is the rows csv.reader / the worksheet yields, each a list of cells. *)

Indices(n) == [i \in 1..n |-> i]

\* [row[i] for row in data_rows[:20] if i < len(row)]
Samples(data_rows, i) ==
    LET first == SubSeq(data_rows, 1, Min(20, Len(data_rows)))
        having == SelectSeq(first, LAMBDA row : i <= Len(row))
    IN  [k \in 1..Len(having) |-> having[k][i]]

\* lines 123-129 and 150-156: the detected type of every header, left to right
ColumnMap(headers, data_rows) ==
    [i \in 1..Len(headers) |-> DetectColumnType(headers[i], Samples(data_rows, i))]

\* column_map.get(col_type, []): the columns of a type, left to right
Columns(column_map, col_type) ==
    SelectSeq(Indices(Len(column_map)), LAMBDA i : column_map[i] = col_type)

\* the cells of a row at the columns it has: row[col] for col in cols if col < len(row)
Cells(row, cols) ==
    LET having == SelectSeq(cols, LAMBDA col : col <= Len(row)) IN
    [k \in 1..Len(having) |-> row[having[k]]]

\* the first decoded cell that is something, or none
FirstOf(decoded, none) ==
    LET hits == {k \in 1..Len(decoded) : decoded[k] # none} IN
    IF hits = {} THEN none
    ELSE decoded[CHOOSE k \in hits : \A j \in hits : k <= j]

\* lines 201-206: the first value cell that parses
RowValue(cells) == FirstOf([k \in 1..Len(cells) |-> ParseMonetaryValue(cells[k])], NoneDec)

\* lines 211-216: the first date cell that parses
RowDate(cells) == FirstOf([k \in 1..Len(cells) |-> ParseDate(cells[k])], NoneDate)

\* lines 218-224: the first cnpj cell that is not blank, normalized
RowCnpj(cells) ==
    FirstOf([k \in 1..Len(cells) |->
                IF Strip(cells[k]) = <<>> THEN NoneStr
                ELSE NormalizeCnpj(Strip(cells[k]))], NoneStr)

\* lines 226-232: the first name cell that is not blank
RowName(cells) == FirstOf([k \in 1..Len(cells) |-> OrNone(Strip(cells[k]))], NoneStr)

\* line 235: value < 0 raises InvalidOperation on a NaN
RaisesOnSign(file_type, value) == file_type # "payment" /\ value = NaNDec

\* line 235: is_payment = file_type == "payment" or value < 0
IsPayment(file_type, value) == file_type = "payment" \/ value.num < 0

\* line 208: the row is skipped; a NaN is neither None nor equal to 0
SkipsRow(value) == value = NoneDec \/ (value # NaNDec /\ value.num = 0)

\* abs(Decimal("NaN")) as an amount: a NaN again; no amount in cents is negative
NaNAmount == -1

\* line 234: abs(value), in cents
AbsValue(value) == IF value = NaNDec THEN NaNAmount ELSE Abs(Cents(value))

RowRecordNoError(value, record_date, cnpj, name, source, file_type, row_idx) ==
    IF SkipsRow(value) \/ RaisesOnSign(file_type, value) THEN ParseResult(<<>>, <<>>, <<>>)
    ELSE IF IsPayment(file_type, value)
    THEN ParseResult(<<>>, <<Payment(cnpj, name, AbsValue(value), record_date,
                                     NoneStr, source)>>, <<>>)
    ELSE ParseResult(<<Receivable(cnpj, name, AbsValue(value), record_date,
                                  "pending", source)>>, <<>>, <<>>)

\* lines 208 and 234-255: the record made of a row's decoded cells, or the
\* row error {"row": row_idx + 2}
RowRecord(value, record_date, cnpj, name, source, file_type, row_idx) ==
    IF SkipsRow(value) THEN ParseResult(<<>>, <<>>, <<>>)
    ELSE IF RaisesOnSign(file_type, value)
    THEN ParseResult(<<>>, <<>>, <<RowError(row_idx + 2)>>)
    ELSE IF IsPayment(file_type, value)
    THEN ParseResult(<<>>, <<Payment(cnpj, name, AbsValue(value), record_date,
                                     NoneStr, source)>>, <<>>)
    ELSE ParseResult(<<Receivable(cnpj, name, AbsValue(value), record_date,
                                  "pending", source)>>, <<>>, <<>>)

\* lines 199-255: the records of one data row
RowRecords(column_map, row, source, file_type, row_idx) ==
    RowRecord(RowValue(Cells(row, Columns(column_map, "value"))),
              RowDate(Cells(row, Columns(column_map, "date"))),
              RowCnpj(Cells(row, Columns(column_map, "cnpj"))),
              RowName(Cells(row, Columns(column_map, "name"))),
              source, file_type, row_idx)

\* the records of two stretches of rows, in order
Joined(this, rest) ==
    ParseResult(this.receivables \o rest.receivables, this.payments \o rest.payments,
                this.errors \o rest.errors)

RECURSIVE BuildRows(_, _, _, _, _)
BuildRows(column_map, data_rows, k, source, file_type) ==
    IF k > Len(data_rows) THEN ParseResult(<<>>, <<>>, <<>>)
    ELSE Joined(RowRecords(column_map, data_rows[k], source, file_type, k - 1),
                BuildRows(column_map, data_rows, k + 1, source, file_type))

\* _build_records(column_map, data_rows, source, file_type)
BuildRecords(column_map, data_rows, source, file_type) ==
    IF Columns(column_map, "value") = <<>> THEN Raised
    ELSE Ok(BuildRows(column_map, data_rows, 1, source, file_type))

\* lines 116-132 and 144-159: header row, column map, file type, records
ParseRows(rows, source) ==
    IF Len(rows) < 2 THEN Raised
    ELSE BuildRecords(ColumnMap(rows[1], Tail(rows)), Tail(rows), source,
                      DetectFileType(rows[1]))

\* parse_csv_content(content)
ParseCsvContent(content) == ParseRows(content.rows, "csv")

\* parse_xlsx_content(content)
ParseXlsxContent(content) == ParseRows(content.rows, "xlsx")

----------------------------------------------------------------------------
(* parser.py: parse_ofx_content.  A statement file is what OfxParser.parse
   makes of it: unreadable, or the list of its transactions. *)

Transaction(amount, date, payee, memo, checknum, id) ==
    [amount |-> amount, date |-> date, payee |-> payee, memo |-> memo,
     checknum |-> checknum, id |-> id]

\* x or ''
OrEmpty(text) == IF Truthy(text) THEN text ELSE <<>>

\* lines 274-302: the payment of one transaction
OfxPayment(txn) ==
    LET named == Either(Either(txn.payee, txn.memo), NoneStr)
        payer_name == IF Truthy(named) THEN Strip(named) ELSE named
        search_text == OrEmpty(txn.memo) \o <<Space>> \o OrEmpty(txn.payee)
                       \o <<Space>> \o OrEmpty(txn.checknum)
        cnpj_search == Search(CNPJ_PATTERN, search_text)
        cpf_search == Search(CPF_PATTERN, search_text)
        payer_cnpj == IF cnpj_search # NoneStr THEN NormalizeCnpj(cnpj_search)
                      ELSE IF cpf_search # NoneStr THEN NormalizeCnpj(cpf_search)
                      ELSE NoneStr
    IN  Payment(payer_cnpj, payer_name, Abs(txn.amount), txn.date,
                Either(Either(txn.id, txn.checknum), NoneStr), "ofx")

\* parse_ofx_content(content)
ParseOfxContent(content) ==
    IF ~content.readable \/ content.transactions = <<>> THEN Raised
    ELSE LET kept == SelectSeq(content.transactions, LAMBDA txn : txn.amount # 0) IN
         Ok(ParseResult(<<>>, [k \in 1..Len(kept) |-> OfxPayment(kept[k])], <<>>))

----------------------------------------------------------------------------
(* parser.py: parse_cnab400_content, _detect_cnab_format, parse_cnab_content,
   parse_file *)

\* lines 517-540: the receivable and the payment of a detail record
Detail(st, line_num, codigo_ocorrencia, data_ocorrencia, numero_documento, nosso_numero, vencimento, valor_titulo, valor_pago, juros_multa, desconto, nome_pagador, data_credito) ==
    IF valor_titulo.raised \/ valor_pago.raised \/ juros_multa.raised \/ desconto.raised
    THEN [st EXCEPT !.errors = Append(@, RowError(line_num))]
    ELSE [st EXCEPT
            !.receivables =
                Append(@, Receivable(NoneStr, OrNone(nome_pagador), valor_titulo.value,
                                     vencimento,
                                     IF codigo_ocorrencia \in CNAB_PAID_CODES
                                     THEN "conciliated" ELSE "pending",
                                     "cnab400")),
            !.payments =
                IF PaysWhen(codigo_ocorrencia \in CNAB_PAID_CODES, valor_pago.value)
                THEN Append(@, Payment(NoneStr, OrNone(nome_pagador), valor_pago.value,
                                       FirstDate(data_credito, data_ocorrencia),
                                       OrNone(Either(nosso_numero, numero_documento)),
                                       "cnab400"))
                ELSE @]

\* lines 497-539: one iteration of the loop
Cnab400Line(st, line, line_num) ==
    IF Len(line) < 400 THEN st
    ELSE IF line[1] # "1" THEN st
    ELSE Detail(st, line_num,
                Strip(Slice(line, 108, 110)),
                CnabParseDate(Slice(line, 110, 116)),
                Strip(Slice(line, 116, 126)),
                Strip(Slice(line, 62, 70)),
                CnabParseDate(Slice(line, 146, 152)),
                CnabParseValue(Slice(line, 152, 165)),
                CnabParseValue(Slice(line, 253, 266)),
                CnabParseValue(Slice(line, 266, 279)),
                CnabParseValue(Slice(line, 240, 253)),
                Strip(Slice(line, 324, 354)),
                CnabParseDate(Slice(line, 295, 301)))

RECURSIVE Cnab400Lines(_, _, _)
Cnab400Lines(st, lines, k) ==
    IF k > Len(lines) THEN st
    ELSE Cnab400Lines(Cnab400Line(st, Render(lines[k]), k), lines, k + 1)

\* parse_cnab400_content(content)
ParseCnab400Content(content) ==
    Collected(Cnab400Lines(Cnab240Start, NonBlankLines(content), 1))

\* lines 331-339: the format by the length of the first non-blank line
FormatOf(lines) ==
    IF lines = <<>> THEN "None"
    ELSE IF Len(Render(lines[1])) = 240 THEN "240"
    ELSE IF Len(Render(lines[1])) = 400 THEN "400"
    ELSE "None"

\* _detect_cnab_format(content); the table and statement files of the model
\* have no first line of 240 or 400 characters
DetectCnabFormat(content) ==
    IF "lines" \notin DOMAIN content THEN "None"
    ELSE FormatOf(NonBlankLines(content.lines))

\* lines 548-552: the parser of the detected format
ParseCnabAs(fmt, content) ==
    IF fmt = "240" THEN ParseCnab240Content(content.lines)
    ELSE IF fmt = "400" THEN ParseCnab400Content(content.lines)
    ELSE Raised

\* parse_cnab_content(content)
ParseCnabContent(content) == ParseCnabAs(DetectCnabFormat(content), content)

\* str.endswith(suffix)
EndsWith(s, suffix) ==
    Len(s) >= Len(suffix) /\ SubSeq(s, Len(s) - Len(suffix) + 1, Len(s)) = suffix

ExtCsv == <<".", "c", "s", "v">>
ExtXlsx == <<".", "x", "l", "s", "x">>
ExtXls == <<".", "x", "l", "s">>
ExtOfx == <<".", "o", "f", "x">>
ExtRet == <<".", "r", "e", "t">>
ExtRem == <<".", "r", "e", "m">>
ExtCnab == <<".", "c", "n", "a", "b">>

DispatchBySubstring(content, filename) ==
    IF Contains(filename, ExtCsv) THEN "parse_csv_content"
    ELSE IF Contains(filename, ExtXlsx) \/ Contains(filename, ExtXls)
    THEN "parse_xlsx_content"
    ELSE IF Contains(filename, ExtOfx) THEN "parse_ofx_content"
    ELSE IF Contains(filename, ExtRet) \/ Contains(filename, ExtRem)
            \/ Contains(filename, ExtCnab)
    THEN "parse_cnab_content"
    ELSE IF DetectCnabFormat(content) # "None" THEN "parse_cnab_content"
    ELSE "ValueError"

\* lines 557-570: the branch parse_file takes
Dispatch(content, filename) ==
    IF EndsWith(filename, ExtCsv) THEN "parse_csv_content"
    ELSE IF EndsWith(filename, ExtXlsx) \/ EndsWith(filename, ExtXls)
    THEN "parse_xlsx_content"
    ELSE IF EndsWith(filename, ExtOfx) THEN "parse_ofx_content"
    ELSE IF EndsWith(filename, ExtRet) \/ EndsWith(filename, ExtRem)
            \/ EndsWith(filename, ExtCnab)
    THEN "parse_cnab_content"
    ELSE IF DetectCnabFormat(content) # "None" THEN "parse_cnab_content"
    ELSE "ValueError"

\* the call of the branch taken
ParseWith(called, content) ==
    IF called = "parse_csv_content" THEN ParseCsvContent(content)
    ELSE IF called = "parse_xlsx_content" THEN ParseXlsxContent(content)
    ELSE IF called = "parse_ofx_content" THEN ParseOfxContent(content)
    ELSE IF called = "parse_cnab_content" THEN ParseCnabContent(content)
    ELSE Raised

\* parse_file(content, filename)
ParseFile(content, filename) == ParseWith(Dispatch(content, filename), content)

----------------------------------------------------------------------------
(* conciliation.py: _match_confidence *)

\* tolerances, in thousandths
VALUE_EXACT_TOLERANCE == 1
VALUE_CLOSE_TOLERANCE == 20
VALUE_FUZZY_TOLERANCE == 50

\* value_pct <= tol, where value_pct = value_diff / face (face # 0)
PctWithin(value_diff, face, tol) ==
    IF face > 0 THEN value_diff * 1000 <= tol * face
    ELSE TRUE    \* a negative face makes the quotient <= 0

RecvStopWords ==
    {<<"L", "T", "D", "A">>,
     <<"M", "E">>,
     <<"S", "A">>,
     <<"E", "I", "R", "E", "L", "I">>,
     <<"E", "P", "P">>,
     <<"S", "/", "A">>,
     <<"S", ".", "A", ".">>,
     <<"D", "E">>,
     <<"D", "O">>,
     <<"D", "A">>,
     <<"E">>,
     <<"-">>}

PayStopWords ==
    RecvStopWords \cup {<<"P", "I", "X">>, <<"T", "E", "D">>, <<"D", "O", "C">>}

\* set(name.upper().strip().split()) - stop words
NameWords(name, stop) == Words(Strip(Upper(name))) \ stop

ValueScoreBug(face, amount) ==
    LET value_diff == Abs(face - amount) IN
    IF PctWithin(value_diff, face, VALUE_EXACT_TOLERANCE) THEN 40
    ELSE IF PctWithin(value_diff, face, VALUE_CLOSE_TOLERANCE) THEN 30
    ELSE 15

\* the value component; 0 stands for the early `return 0`
ValueScore(face, amount) ==
    LET value_diff == Abs(face - amount) IN
    IF PctWithin(value_diff, face, VALUE_EXACT_TOLERANCE) THEN 40
    ELSE IF PctWithin(value_diff, face, VALUE_CLOSE_TOLERANCE) THEN 30
    ELSE IF PctWithin(value_diff, face, VALUE_FUZZY_TOLERANCE) THEN 15
    ELSE 0

CnpjMatched(recv, pay) ==
    /\ Truthy(recv.debtor_cnpj) /\ Truthy(pay.payer_cnpj)
    /\ recv.debtor_cnpj = pay.payer_cnpj

NameScore(recv, pay) ==
    IF Truthy(recv.debtor_name) /\ Truthy(pay.payer_name)
    THEN LET recv_words == NameWords(recv.debtor_name, RecvStopWords)
             pay_words == NameWords(pay.payer_name, PayStopWords)
             common == recv_words \cap pay_words
         IN  IF recv_words # {} /\ pay_words # {}
             THEN IF Cardinality(common) >= 2 THEN 10
                  ELSE IF Cardinality(common) = 1 /\ Cardinality(recv_words) <= 3 THEN 5
                  ELSE 0
             ELSE 0
    ELSE 0

DateScore(recv, pay) ==
    IF recv.due_date # NoneDate /\ pay.date # NoneDate
    THEN LET delta == Abs(recv.due_date - pay.date) IN
         IF delta = 0 THEN 25
         ELSE IF delta <= 3 THEN 18
         ELSE IF delta <= 7 THEN 12
         ELSE IF delta <= 15 THEN 6
         ELSE IF delta <= 30 THEN 3
         ELSE 0
    ELSE 0

MatchConfidenceNameAlways(recv, pay) ==
    IF recv.face_value = 0 THEN 0
    ELSE LET v == ValueScore(recv.face_value, pay.amount) IN
         IF v = 0 THEN 0
         ELSE Min(v + (IF CnpjMatched(recv, pay) THEN 35 ELSE 0)
                    + NameScore(recv, pay) + DateScore(recv, pay), 100)

MatchConfidence(recv, pay) ==
    IF recv.face_value = 0 THEN 0
    ELSE LET v == ValueScore(recv.face_value, pay.amount) IN
         IF v = 0 THEN 0
         ELSE LET cnpj_matched == CnpjMatched(recv, pay)
                  s1 == v + (IF cnpj_matched THEN 35 ELSE 0)
                  s2 == s1 + (IF ~cnpj_matched THEN NameScore(recv, pay) ELSE 0)
                  s3 == s2 + DateScore(recv, pay)
              IN  Min(s3, 100)

----------------------------------------------------------------------------
(* conciliation.py: run_conciliation *)

InAnyScope(row, session_id, organization_id) == TRUE

\* lines 100-105: the scope filter both queries get
InScope(row, session_id, organization_id) ==
    IF session_id # NoneId THEN row.session_id = session_id
    ELSE IF organization_id # NoneId THEN row.organization_id = organization_id
    ELSE TRUE

SelectedReceivablesAnyStatus(session_id, organization_id) ==
    {i \in 1..Len(receivables) : InScope(receivables[i], session_id, organization_id)}

\* lines 97 and 100-105: the pending receivables of the scope
SelectedReceivables(session_id, organization_id) ==
    {i \in 1..Len(receivables) :
        /\ receivables[i].status = "pending"
        /\ InScope(receivables[i], session_id, organization_id)}

SelectedPaymentsAnyStatus(session_id, organization_id) ==
    {i \in 1..Len(payments) : InScope(payments[i], session_id, organization_id)}

\* lines 98 and 100-105: the unmatched payments of the scope
SelectedPayments(session_id, organization_id) ==
    {i \in 1..Len(payments) :
        /\ payments[i].match_status = "unmatched"
        /\ InScope(payments[i], session_id, organization_id)}

\* rows a run loads: pending receivables / unmatched payments of the session
PendingIds(session_id) == SelectedReceivables(session_id, NoneId)

UnmatchedIds(session_id) == SelectedPayments(session_id, NoneId)

\* the query has no ORDER BY: the rows come in any order
Orders(S) == {s \in [1..Cardinality(S) -> S] : Range(s) = S}

\* the cross product, receivable-major, keeping the pairs with confidence > 0
PotentialMatches(recvs, pays) ==
    LET n == Len(pays)
        all == [k \in 1..(Len(recvs) * n) |->
                  LET r == recvs[((k - 1) \div n) + 1]
                      p == pays[((k - 1) % n) + 1]
                  IN  [recv |-> r, pay |-> p,
                       confidence |-> MatchConfidence(receivables[r], payments[p])]]
    IN  SelectSeq(all, LAMBDA m : m.confidence > 0)

RECURSIVE InsertByConfidence(_, _)
InsertByConfidence(sorted, x) ==
    IF sorted = <<>> THEN <<x>>
    ELSE IF Head(sorted).confidence >= x.confidence
         THEN <<Head(sorted)>> \o InsertByConfidence(Tail(sorted), x)
         ELSE <<x>> \o sorted

RECURSIVE SortStable(_)
SortStable(s) ==
    IF s = <<>> THEN <<>>
    ELSE InsertByConfidence(SortStable(SubSeq(s, 1, Len(s) - 1)), s[Len(s)])

NoSort(potential_matches) == potential_matches

\* list.sort(key=confidence, reverse=True): stable, descending
SortByConfidence(potential_matches) == SortStable(potential_matches)

AlreadyClaimedBoth(m, matched_receivables, matched_payments) ==
    m.recv \in matched_receivables /\ m.pay \in matched_payments

AlreadyClaimedAfterFirst(m, matched_receivables, matched_payments) ==
    matched_receivables # {}

AlreadyClaimed(m, matched_receivables, matched_payments) ==
    m.recv \in matched_receivables \/ m.pay \in matched_payments

RECURSIVE GreedyWalk(_, _, _, _)
GreedyWalk(pm, matched_receivables, matched_payments, matches) ==
    IF pm = <<>> THEN matches
    ELSE LET m == Head(pm) IN
         IF AlreadyClaimed(m, matched_receivables, matched_payments)
         THEN GreedyWalk(Tail(pm), matched_receivables, matched_payments, matches)
         ELSE GreedyWalk(Tail(pm), matched_receivables \cup {m.recv},
                         matched_payments \cup {m.pay}, Append(matches, m))

\* the match list of a run that loaded the rows in the orders recvs, pays
Matches(recvs, pays) ==
    GreedyWalk(SortByConfidence(PotentialMatches(recvs, pays)), {}, {}, <<>>)

RECURSIVE SumConfidence(_)
SumConfidence(ms) == IF ms = <<>> THEN 0 ELSE Head(ms).confidence + SumConfidence(Tail(ms))

\* round(x, 1) of matched / max(total, 1) * 100, in tenths of a percent (half to even)
MatchRate(matched, total) ==
    LET d == Max(total, 1)
        q == (matched * 1000) \div d
        r == (matched * 1000) % d
    IN  IF 2 * r > d \/ (2 * r = d /\ q % 2 = 1) THEN q + 1 ELSE q

ClaimReceivableAndDate(recv) == [recv EXCEPT !.status = "conciliated", !.due_date = NoneDate]

ClaimReceivableKeepsPending(recv) == recv

\* line 142: recv.status = "conciliated"
ClaimReceivable(recv) == [recv EXCEPT !.status = "conciliated"]

ClaimPaymentNoLink(pay, recv_id) == [pay EXCEPT !.match_status = "auto"]

\* lines 143-144: pay.matched_receivable_id = recv.id; pay.match_status = "auto"
ClaimPayment(pay, recv_id) ==
    [pay EXCEPT !.matched_receivable_id = recv_id, !.match_status = "auto"]

\* the ConciliationRun row as the run leaves it
FinishedRunByPayments(session_id, organization_id, recvs, pays, matches) ==
    [session_id |-> session_id, organization_id |-> organization_id,
     total_receivables |-> Len(recvs), total_payments |-> Len(pays),
     matched_count |-> Len(matches),
     unmatched_count |-> Len(pays) - Len(matches),
     partial_count |-> 0,
     status |-> "completed", completed |-> TRUE]

FinishedRun(session_id, organization_id, recvs, pays, matches) ==
    [session_id |-> session_id, organization_id |-> organization_id,
     total_receivables |-> Len(recvs), total_payments |-> Len(pays),
     matched_count |-> Len(matches),
     unmatched_count |-> Len(recvs) - Len(matches),
     partial_count |-> 0,
     status |-> "completed", completed |-> TRUE]

RunResultAllUnmatched(run_id, recvs, pays, matches) ==
    [op |-> "conciliate", status |-> 200, run_id |-> run_id,
     summary |-> [total_receivables |-> Len(recvs),
                  total_payments |-> Len(pays),
                  matched |-> Len(matches),
                  unmatched_receivables |-> Len(recvs),
                  unmatched_payments |-> Len(pays),
                  match_rate |-> MatchRate(Len(matches), Len(recvs))],
     matches |-> matches,
     unmatched_receivables |-> recvs,
     unmatched_payments |-> pays]

\* the dict run_conciliation returns; run.id is read before the run was ever
\* flushed, when the column default has not been applied: callers pass NoneId
RunResult(run_id, recvs, pays, matches) ==
    LET matched_receivables == {matches[i].recv : i \in 1..Len(matches)}
        matched_payments == {matches[i].pay : i \in 1..Len(matches)}
        unmatched_receivables == SelectSeq(recvs, LAMBDA r : r \notin matched_receivables)
        unmatched_payments == SelectSeq(pays, LAMBDA p : p \notin matched_payments)
    IN  [op |-> "conciliate", status |-> 200, run_id |-> run_id,
         summary |-> [total_receivables |-> Len(recvs),
                      total_payments |-> Len(pays),
                      matched |-> Len(matches),
                      unmatched_receivables |-> Len(unmatched_receivables),
                      unmatched_payments |-> Len(unmatched_payments),
                      match_rate |-> MatchRate(Len(matches), Len(recvs))],
         matches |-> matches,
         unmatched_receivables |-> unmatched_receivables,
         unmatched_payments |-> unmatched_payments]

\* the rows after the walk of a run that claimed `matches`
ReceivablesAfter(matches) ==
    [i \in 1..Len(receivables) |->
        IF \E k \in 1..Len(matches) : matches[k].recv = i
        THEN ClaimReceivable(receivables[i]) ELSE receivables[i]]

\* a payment claimed twice keeps the link written last
PaymentsAfter(matches) ==
    [i \in 1..Len(payments) |->
        IF \E k \in 1..Len(matches) : matches[k].pay = i
        THEN LET last == CHOOSE k \in 1..Len(matches) :
                            /\ matches[k].pay = i
                            /\ \A j \in 1..Len(matches) : matches[j].pay = i => j <= k
             IN  ClaimPayment(payments[i], matches[last].recv)
        ELSE payments[i]]

----------------------------------------------------------------------------
(* instant.py: instant_conciliate *)

MaxRuns == 2

\* session tokens a request may carry: those issued, and one unknown
Tokens == 1..(Len(sessions) + 1)

ConciliateNotFound(session_token) ==
    /\ session_token \notin 1..Len(sessions)
    /\ response' = [op |-> "conciliate", status |-> 404]
    /\ UNCHANGED <<receivables, payments, sessions, runs, loaded, parser, organizations, users>>

\* run_conciliation(db, session_id, organization_id) and the caller's commit
RunConciliation(session_id, organization_id) ==
    /\ Len(runs) < MaxRuns
    /\ \E recvs \in Orders(SelectedReceivables(session_id, organization_id)),
          pays \in Orders(SelectedPayments(session_id, organization_id)) :
          LET matches == Matches(recvs, pays) IN
          /\ loaded' = [receivables |-> recvs, payments |-> pays]
          /\ receivables' = ReceivablesAfter(matches)
          /\ payments' = PaymentsAfter(matches)
          /\ runs' = Append(runs, FinishedRun(session_id, organization_id, recvs, pays, matches))
          /\ response' = RunResult(NoneId, recvs, pays, matches)
    /\ UNCHANGED <<sessions, parser, organizations, users>>

InstantConciliate(session_token) ==
    /\ session_token \in 1..Len(sessions)
    /\ RunConciliation(session_token, NoneId)

----------------------------------------------------------------------------
(* The scorer and the engine on drawn inputs: one session holding the rows *)

SeqsUpTo(S, n) == UNION {[1..k -> S] : k \in 0..n}

InSession(rows, session_id) ==
    [i \in 1..Len(rows) |-> [rows[i] EXCEPT !.session_id = session_id]]

\* one receivable and one payment over every tier of every component
ScoreFaces == {0, 50000, 100000}
ScoreAmounts == {80000, 100000, 100100, 100101, 102000, 102001, 103000, 105000, 105001}
ScoreDueDates == {NoneDate, 100}
ScoreDates == {NoneDate, 100, 97, 96, 93, 92, 85, 84, 70, 69}
ScoreRecvCnpjs == {NoneStr, <<>>, Cnpj1}
ScorePayCnpjs == {NoneStr, <<>>, Cnpj1, Cnpj2}
ScoreRecvNames == {NoneStr, NameAcmeLtda, NameAcmeFoodsSa, NameAcmeLong}
ScorePayNames == {NoneStr, NamePixAcme, NameAcmeFoods, NamePix}

\* every face against every amount, with all or none of the other signals
InitScoreValues ==
    \E f \in ScoreFaces, a \in ScoreAmounts, c \in {NoneStr, Cnpj1}, d \in {NoneDate, 100} :
        /\ receivables = InSession(<<Receivable(c, NoneStr, f, d, "pending", "csv")>>, 1)
        /\ payments = InSession(<<Payment(c, NoneStr, a, d, NoneStr, "csv")>>, 1)

\* every identifier, name and date combination on pairs the value admits
InitScoreSignals ==
    /\ \E d \in ScoreDueDates, c \in ScoreRecvCnpjs, n \in ScoreRecvNames :
          receivables = InSession(<<Receivable(c, n, 100000, d, "pending", "csv")>>, 1)
    /\ \E a \in {100000, 102000, 103000}, d \in ScoreDates, c \in ScorePayCnpjs,
          n \in ScorePayNames :
          payments = InSession(<<Payment(c, n, a, d, NoneStr, "csv")>>, 1)

InitScore ==
    /\ InitScoreValues \/ InitScoreSignals
    /\ sessions = <<AnonymousSession(1)>>
    /\ runs = <<>>
    /\ loaded = [receivables |-> <<>>, payments |-> <<>>]
    /\ response = [op |-> "none", status |-> 0]
    /\ parser = NoParse
    /\ organizations = <<>>
    /\ users = <<>>

NextConciliate ==
    \E session_token \in Tokens :
        \/ ConciliateNotFound(session_token)
        \/ InstantConciliate(session_token)

SpecScore == InitScore /\ [][NextConciliate]_vars

\* several receivables and payments, with score ties and conflicts among them
MaxRecv == 2
MaxPay == 2

MatchRecvs ==
    {Receivable(NoneStr, NoneStr, 100000, NoneDate, "pending", "csv"),
     Receivable(NoneStr, NoneStr, 108000, NoneDate, "pending", "csv"),
     Receivable(Cnpj1, NameAcmeLtda, 100000, 100, "pending", "csv"),
     Receivable(Cnpj1, NoneStr, 50000, 100, "pending", "csv")}

MatchPays ==
    {Payment(NoneStr, NoneStr, 103000, NoneDate, NoneStr, "csv"),
     Payment(NoneStr, NoneStr, 97000, NoneDate, NoneStr, "csv"),
     Payment(Cnpj1, NoneStr, 100000, 100, NoneStr, "ofx"),
     Payment(NoneStr, NamePixAcme, 100000, 97, NoneStr, "ofx"),
     Payment(Cnpj1, NoneStr, 80000, 100, NoneStr, "ofx")}

InitMatch ==
    /\ \E rs \in SeqsUpTo(MatchRecvs, MaxRecv) : receivables = InSession(rs, 1)
    /\ \E ps \in SeqsUpTo(MatchPays, MaxPay) : payments = InSession(ps, 1)
    /\ sessions = <<AnonymousSession(1)>>
    /\ runs = <<>>
    /\ loaded = [receivables |-> <<>>, payments |-> <<>>]
    /\ response = [op |-> "none", status |-> 0]
    /\ parser = NoParse
    /\ organizations = <<>>
    /\ users = <<>>

SpecMatch == InitMatch /\ [][NextConciliate]_vars

----------------------------------------------------------------------------
(* run_conciliation statement by statement inside one instant_conciliate
   request.  Until the commit the run and the claimed rows are objects of the
   request's database session; `loaded` holds the locals of the request. *)

\* a NaN cell of a payment sheet, stored as parsed
NaNPayment == Payment(NoneStr, NoneStr, NaNAmount, NoneDate, NoneStr, "csv")

\* no request is being served
Idle == [pc |-> "idle", receivables |-> <<>>, payments |-> <<>>]

\* lines 35-38 of _match_confidence: value_pct is a NaN, and comparing it
\* with a tolerance raises InvalidOperation
ConfidenceRaises(recv, pay) == recv.face_value # 0 /\ pay.amount = NaNAmount

StartedRunCompleted(session_id, organization_id, recvs, pays) ==
    [session_id |-> session_id, organization_id |-> organization_id,
     total_receivables |-> Len(recvs), total_payments |-> Len(pays),
     matched_count |-> 0, unmatched_count |-> 0, partial_count |-> 0,
     status |-> "completed", completed |-> TRUE]

\* lines 114-120: the run as constructed; matched_count, unmatched_count,
\* partial_count and status take their column defaults, completed_at is null
StartedRun(session_id, organization_id, recvs, pays) ==
    [session_id |-> session_id, organization_id |-> organization_id,
     total_receivables |-> Len(recvs), total_payments |-> Len(pays),
     matched_count |-> 0, unmatched_count |-> 0, partial_count |-> 0,
     status |-> "running", completed |-> FALSE]

\* _match_confidence of every receivable and payment InitRun draws, as stored
DrawnConfidence ==
    [recv \in {InSession(<<row>>, 1)[1] : row \in MatchRecvs},
     pay \in {InSession(<<row>>, 1)[1] : row \in MatchPays} |-> MatchConfidence(recv, pay)]

InitRun ==
    /\ \E rs \in SeqsUpTo(MatchRecvs, MaxRecv) : receivables = InSession(rs, 1)
    /\ \E ps \in SeqsUpTo(MatchPays \cup {NaNPayment}, MaxPay) : payments = InSession(ps, 1)
    /\ sessions = <<AnonymousSession(1)>>
    /\ runs = <<>>
    /\ loaded = Idle
    /\ response = [op |-> "none", status |-> 0]
    /\ parser = NoParse
    /\ organizations = <<>>
    /\ users = <<>>

\* instant.py lines 103-113 and conciliation.py lines 96-120: the session is
\* found, the rows are selected and the run is added to the database session
CreateRun(session_token) ==
    /\ loaded.pc = "idle"
    /\ session_token \in 1..Len(sessions)
    /\ Len(runs) < MaxRuns
    /\ \E recvs \in Orders(PendingIds(session_token)),
          pays \in Orders(UnmatchedIds(session_token)) :
          loaded' = [pc |-> "score", receivables |-> recvs, payments |-> pays,
                     run |-> StartedRun(session_token, NoneId, recvs, pays),
                     scored |-> 0, potential_matches |-> <<>>,
                     matched_receivables |-> {},
                     matched_payments |-> {}, matches |-> <<>>]
    /\ UNCHANGED <<receivables, payments, sessions, runs, response, parser, organizations, users>>

\* lines 123-124: the pair the double loop scores next, receivable-major
NextRecv == loaded.receivables[(loaded.scored \div Len(loaded.payments)) + 1]
NextPay == loaded.payments[(loaded.scored % Len(loaded.payments)) + 1]

\* pairs are left to score
Scoring ==
    /\ loaded.pc = "score"
    /\ loaded.scored < Len(loaded.receivables) * Len(loaded.payments)

\* lines 125-128: one pair is scored and kept if its confidence is positive
ScorePair ==
    /\ Scoring
    /\ ~ConfidenceRaises(receivables[NextRecv], payments[NextPay])
    /\ LET confidence == DrawnConfidence[receivables[NextRecv], payments[NextPay]] IN
       loaded' = [loaded EXCEPT
                    !.scored = @ + 1,
                    !.potential_matches =
                        IF confidence > 0
                        THEN Append(@, [recv |-> NextRecv, pay |-> NextPay,
                                        confidence |-> confidence])
                        ELSE @]
    /\ UNCHANGED <<receivables, payments, sessions, runs, response, parser, organizations, users>>

\* line 125: _match_confidence raises; the exception leaves run_conciliation
\* and instant_conciliate, the database session is closed without a commit
\* and the run is discarded with it
ScoreRaises ==
    /\ Scoring
    /\ ConfidenceRaises(receivables[NextRecv], payments[NextPay])
    /\ loaded' = Idle
    /\ response' = [op |-> "conciliate", status |-> 500]
    /\ UNCHANGED <<receivables, payments, sessions, runs, parser, organizations, users>>

\* line 131: the candidates are sorted by confidence, highest first
SortCandidates ==
    /\ loaded.pc = "score"
    /\ loaded.scored = Len(loaded.receivables) * Len(loaded.payments)
    /\ loaded' = [loaded EXCEPT !.pc = "walk",
                                !.potential_matches = SortByConfidence(@)]
    /\ UNCHANGED <<receivables, payments, sessions, runs, response, parser, organizations, users>>

\* lines 138-140: the next candidate shares a record with a claimed pair
SkipClaimed ==
    /\ loaded.pc = "walk" /\ loaded.potential_matches # <<>>
    /\ AlreadyClaimed(Head(loaded.potential_matches), loaded.matched_receivables,
                      loaded.matched_payments)
    /\ loaded' = [loaded EXCEPT !.potential_matches = Tail(@)]
    /\ UNCHANGED <<receivables, payments, sessions, runs, response, parser, organizations, users>>

\* lines 142-160: the next candidate is claimed
ClaimPair ==
    /\ loaded.pc = "walk" /\ loaded.potential_matches # <<>>
    /\ ~AlreadyClaimed(Head(loaded.potential_matches), loaded.matched_receivables,
                       loaded.matched_payments)
    /\ LET m == Head(loaded.potential_matches) IN
       /\ receivables' = [receivables EXCEPT ![m.recv] = ClaimReceivable(@)]
       /\ payments' = [payments EXCEPT ![m.pay] = ClaimPayment(@, m.recv)]
       /\ loaded' = [loaded EXCEPT !.potential_matches = Tail(@),
                                   !.matched_receivables = @ \cup {m.recv},
                                   !.matched_payments = @ \cup {m.pay},
                                   !.matches = Append(@, m)]
    /\ UNCHANGED <<sessions, runs, response, parser, organizations, users>>

\* lines 162-166: the walk is over; the run gets its counts and is completed
CompleteRun ==
    /\ loaded.pc = "walk" /\ loaded.potential_matches = <<>>
    /\ loaded' = [loaded EXCEPT
                    !.pc = "return",
                    !.run = FinishedRun(loaded.run.session_id, loaded.run.organization_id,
                                        loaded.receivables, loaded.payments, loaded.matches)]
    /\ UNCHANGED <<receivables, payments, sessions, runs, response, parser, organizations, users>>

\* conciliation.py lines 168-205 and instant.py lines 113-116: the result is
\* built, the request commits and answers
CommitRun ==
    /\ loaded.pc = "return"
    /\ runs' = Append(runs, loaded.run)
    /\ response' = RunResult(NoneId, loaded.receivables, loaded.payments, loaded.matches)
    /\ loaded' = [loaded EXCEPT !.pc = "idle"]
    /\ UNCHANGED <<receivables, payments, sessions, parser, organizations, users>>

NextRun ==
    \/ \E session_token \in Tokens : loaded.pc = "idle" /\ ConciliateNotFound(session_token)
    \/ \E session_token \in Tokens : CreateRun(session_token)
    \/ ScorePair
    \/ ScoreRaises
    \/ SortCandidates
    \/ SkipClaimed
    \/ ClaimPair
    \/ CompleteRun
    \/ CommitRun

SpecRun == InitRun /\ [][NextRun]_vars

\* every request that is being served is served to its end
SpecRunFair == SpecRun /\ WF_vars(NextRun)

----------------------------------------------------------------------------
(* parse_cnab240_content line by line *)

MaxLines == 3

Init240 ==
    /\ \E content \in SeqsUpTo(Lines240, MaxLines) :
          parser = [lines |-> NonBlankLines(content), line_num |-> 0,
                    seg_t |-> NoSegT, receivables |-> <<>>, payments |-> <<>>,
                    errors |-> <<>>, done |-> FALSE]
    /\ receivables = <<>>
    /\ payments = <<>>
    /\ sessions = <<>>
    /\ runs = <<>>
    /\ loaded = [receivables |-> <<>>, payments |-> <<>>]
    /\ response = [op |-> "none", status |-> 0]
    /\ organizations = <<>>
    /\ users = <<>>

\* the line the loop is about to read
NextLine == Render(parser.lines[parser.line_num + 1])

ParserState ==
    [seg_t |-> parser.seg_t, receivables |-> parser.receivables,
     payments |-> parser.payments, errors |-> parser.errors]

\* one iteration of the loop on the next line
ReadLine ==
    LET st == Cnab240Line(ParserState, NextLine, parser.line_num + 1) IN
    /\ parser' = [parser EXCEPT !.line_num = @ + 1, !.seg_t = st.seg_t,
                                !.receivables = st.receivables,
                                !.payments = st.payments, !.errors = st.errors]
    /\ UNCHANGED <<receivables, payments, sessions, runs, loaded, response, organizations, users>>

Reading == ~parser.done /\ parser.line_num < Len(parser.lines)

SkipShortLine == Reading /\ LineTooShort(NextLine) /\ ReadLine

SkipNonDetail == Reading /\ ~LineTooShort(NextLine) /\ ~IsDetail(NextLine) /\ ReadLine

TitleSegment ==
    /\ Reading /\ ~LineTooShort(NextLine) /\ IsDetail(NextLine)
    /\ Segmento(NextLine) = "T"
    /\ ReadLine

SettlementSegment ==
    /\ Reading /\ ~LineTooShort(NextLine) /\ IsDetail(NextLine)
    /\ Segmento(NextLine) = "U" /\ parser.seg_t # NoSegT
    /\ ReadLine

OtherSegment ==
    /\ Reading /\ ~LineTooShort(NextLine) /\ IsDetail(NextLine)
    /\ Segmento(NextLine) # "T"
    /\ ~(Segmento(NextLine) = "U" /\ parser.seg_t # NoSegT)
    /\ ReadLine

Return240 ==
    /\ ~parser.done /\ parser.line_num = Len(parser.lines)
    /\ parser' = [parser EXCEPT !.done = TRUE]
    /\ UNCHANGED <<receivables, payments, sessions, runs, loaded, response, organizations, users>>

Next240 ==
    \/ SkipShortLine
    \/ SkipNonDetail
    \/ TitleSegment
    \/ SettlementSegment
    \/ OtherSegment
    \/ Return240

Spec240 == Init240 /\ [][Next240]_vars

----------------------------------------------------------------------------
(* parse_cnab400_content line by line, and either fixed-width parser on a
   file of its own sub-format *)

\* one iteration of the loop of the 400 parser on the next line
ReadLine400 ==
    LET st == Cnab400Line(ParserState, NextLine, parser.line_num + 1) IN
    /\ parser' = [parser EXCEPT !.line_num = @ + 1,
                                !.receivables = st.receivables,
                                !.payments = st.payments, !.errors = st.errors]
    /\ UNCHANGED <<receivables, payments, sessions, runs, loaded, response, organizations, users>>

SkipShortLine400 == Reading /\ Len(NextLine) < 400 /\ ReadLine400

SkipNonDetail400 == Reading /\ Len(NextLine) >= 400 /\ NextLine[1] # "1" /\ ReadLine400

DetailRecord400 == Reading /\ Len(NextLine) >= 400 /\ NextLine[1] = "1" /\ ReadLine400

Return400 ==
    /\ ~parser.done /\ parser.line_num = Len(parser.lines)
    /\ parser' = [parser EXCEPT !.done = TRUE]
    /\ UNCHANGED <<receivables, payments, sessions, runs, loaded, response, organizations, users>>

Next400 ==
    \/ SkipShortLine400
    \/ SkipNonDetail400
    \/ DetailRecord400
    \/ Return400

\* the lines of a retorno file of the sub-format
LinesOf(width) == IF width = 240 THEN Lines240 ELSE Lines400

InitFixed ==
    /\ \E width \in {240, 400} :
          \E content \in SeqsUpTo(LinesOf(width), MaxLines) :
              parser = [lines |-> NonBlankLines(content), line_num |-> 0,
                        seg_t |-> NoSegT, receivables |-> <<>>, payments |-> <<>>,
                        errors |-> <<>>, done |-> FALSE, width |-> width]
    /\ receivables = <<>>
    /\ payments = <<>>
    /\ sessions = <<>>
    /\ runs = <<>>
    /\ loaded = [receivables |-> <<>>, payments |-> <<>>]
    /\ response = [op |-> "none", status |-> 0]
    /\ organizations = <<>>
    /\ users = <<>>

NextFixed ==
    \/ parser.width = 240 /\ Next240
    \/ parser.width = 400 /\ Next400

SpecFixed == InitFixed /\ [][NextFixed]_vars

----------------------------------------------------------------------------
(* _build_records row by row on a sheet of one column, next to the
   fixed-width parsers: every parser that reads a file row by row *)

MaxDataRows == 4

\* header cells: one without a hint, one with a value hint, one with a
\* payment hint
SheetHeaders == {<<"q">>, <<"V", "a", "l", "o", "r">>, <<"P", "a", "g", "o">>}

\* data cells: an amount, a negative amount, a zero, a NaN, a word
SheetCells == {<<"1", "0">>, <<"-", "1", "0">>, <<"0">>, <<"N", "a", "N">>, <<"a", "b", "c">>}

\* sheets of a header row and up to MaxDataRows data rows
Sheets ==
    {<<<<header>>>> \o [k \in 1..Len(cells) |-> <<cells[k]>>] :
        header \in SheetHeaders, cells \in SeqsUpTo(SheetCells, MaxDataRows)}

InitSheet ==
    /\ \E rows \in Sheets :
          parser = [lines |-> rows, line_num |-> 0, seg_t |-> NoSegT,
                    receivables |-> <<>>, payments |-> <<>>, errors |-> <<>>,
                    done |-> FALSE, width |-> 0, raised |-> FALSE]
    /\ receivables = <<>>
    /\ payments = <<>>
    /\ sessions = <<>>
    /\ runs = <<>>
    /\ loaded = [receivables |-> <<>>, payments |-> <<>>]
    /\ response = [op |-> "none", status |-> 0]
    /\ organizations = <<>>
    /\ users = <<>>

\* the column map of a sheet
SheetColumns(rows) == ColumnMap(rows[1], Tail(rows))

\* lines 116-117 and 196-197: the sheet is refused before any row is read
SheetRefused(rows) == Len(rows) < 2 \/ Columns(SheetColumns(rows), "value") = <<>>

RaiseOnSheet ==
    /\ parser.width = 0 /\ ~parser.done /\ SheetRefused(parser.lines)
    /\ parser' = [parser EXCEPT !.done = TRUE, !.raised = TRUE]
    /\ UNCHANGED <<receivables, payments, sessions, runs, loaded, response, organizations, users>>

\* lines 199-255: one iteration of the loop over the data rows
ReadRow ==
    /\ parser.width = 0 /\ ~parser.done /\ ~SheetRefused(parser.lines)
    /\ parser.line_num + 1 < Len(parser.lines)
    /\ LET st == RowRecords(SheetColumns(parser.lines), parser.lines[parser.line_num + 2],
                            "csv", DetectFileType(parser.lines[1]), parser.line_num)
       IN  parser' = [parser EXCEPT !.line_num = @ + 1,
                                    !.receivables = @ \o st.receivables,
                                    !.payments = @ \o st.payments,
                                    !.errors = @ \o st.errors]
    /\ UNCHANGED <<receivables, payments, sessions, runs, loaded, response, organizations, users>>

ReturnRecords ==
    /\ parser.width = 0 /\ ~parser.done /\ ~SheetRefused(parser.lines)
    /\ parser.line_num + 1 = Len(parser.lines)
    /\ parser' = [parser EXCEPT !.done = TRUE]
    /\ UNCHANGED <<receivables, payments, sessions, runs, loaded, response, organizations, users>>

NextSheet ==
    \/ RaiseOnSheet
    \/ ReadRow
    \/ ReturnRecords

InitRows == InitFixed \/ InitSheet

NextRows ==
    \/ parser.width = 0 /\ NextSheet
    \/ parser.width # 0 /\ NextFixed

SpecRows == InitRows /\ [][NextRows]_vars

----------------------------------------------------------------------------
(* parse_monetary_value on amounts written in the Brazilian convention *)

MaxSmallCents == 120
MaxThousands == 12
MaxMillions == 3

\* the decimal digits of a natural number
RECURSIVE DigitsOf(_)
DigitsOf(n) ==
    IF n < 10 THEN <<CHOOSE c \in DecimalChars : DigitVal(c) = n>>
    ELSE Append(DigitsOf(n \div 10), CHOOSE c \in DecimalChars : DigitVal(c) = n % 10)

\* digits in groups of three from the right, separated by dots
RECURSIVE Grouped(_)
Grouped(digits) ==
    IF Len(digits) <= 3 THEN digits
    ELSE Grouped(SubSeq(digits, 1, Len(digits) - 3)) \o <<".">>
         \o SubSeq(digits, Len(digits) - 2, Len(digits))

\* an amount of cents as 1.234.567,89: dot as thousands separator, comma as
\* decimal point, two fractional digits
FormatBrazilian(cents) ==
    Grouped(DigitsOf(cents \div 100)) \o <<",">> \o ZFill(DigitsOf(cents % 100), 2)

\* every small amount, and amounts of thousands and of millions with
\* round, mixed and all-nine digits
AmountInputs ==
    (1..MaxSmallCents)
    \cup {99999, 9999999}
    \cup {k * 100000 + r : k \in 1..MaxThousands, r \in {0, 5, 99}}
    \cup {m * 100000000 + t * 100000 + r :
            m \in 1..MaxMillions, t \in {0, 1, 234, 999}, r \in {0, 56, 78999}}

InitAmount ==
    /\ \E cents \in AmountInputs :
          response = [op |-> "format", amount |-> cents, text |-> FormatBrazilian(cents)]
    /\ receivables = <<>>
    /\ payments = <<>>
    /\ sessions = <<>>
    /\ runs = <<>>
    /\ loaded = [receivables |-> <<>>, payments |-> <<>>]
    /\ parser = NoParse
    /\ organizations = <<>>
    /\ users = <<>>

\* parse_monetary_value(text)
ParseAmount ==
    /\ response.op = "format"
    /\ response' = [op |-> "parse_monetary_value", amount |-> response.amount,
                    text |-> response.text, value |-> ParseMonetaryValue(response.text)]
    /\ UNCHANGED <<receivables, payments, sessions, runs, loaded, parser, organizations, users>>

SpecAmount == InitAmount /\ [][ParseAmount]_vars

----------------------------------------------------------------------------
(* instant.py: instant_upload; auth.py: register.  The whole service. *)

MaxSessions == 2
MaxFiles == 3
MaxOrgs == 1
MaxRows == 3

Table(rows) == [rows |-> rows]
Statement(readable, transactions) == [readable |-> readable, transactions |-> transactions]
FixedWidth(lines) == [lines |-> lines]

File(filename, content) == [filename |-> filename, content |-> content]

ReceivablesCsv ==
    File(<<"r", "e", "c", "v", ".", "c", "s", "v">>,
         Table(<<<<<<"C", "N", "P", "J">>, <<"N", "o", "m", "e">>, <<"V", "a", "l", "o", "r">>, <<"V", "e", "n", "c", "i", "m", "e", "n", "t", "o">>>>,
                 <<<<"1", "2", ".", "3", "4", "5", ".", "6", "7", "8", "/", "0", "0", "0", "1", "-", "9", "0">>, <<"A", "c", "m", "e", " ", "L", "t", "d", "a">>, <<"1", ".", "0", "0", "0", ",", "0", "0">>, <<"1", "0", "/", "0", "3", "/", "2", "0", "2", "4">>>>,
                 <<<<>>, <<"N", "a", "d", "a">>, <<"0", ",", "0", "0">>, <<>>>>>>))

PaymentsCsv ==
    File(<<"P", "A", "Y", ".", "C", "S", "V">>,
         Table(<<<<<<"P", "a", "g", "a", "d", "o", "r">>, <<"V", "a", "l", "o", "r", " ", "p", "a", "g", "o">>, <<"D", "a", "t", "a", " ", "p", "a", "g", "a", "m", "e", "n", "t", "o">>>>,
                 <<<<"1", "2", "3", "4", "5", "6", "7", "8", "0", "0", "0", "1", "9", "0">>, <<"R", "$", " ", "1", ".", "0", "3", "0", ",", "0", "0">>, <<"2", "0", "2", "4", "-", "0", "3", "-", "1", "2">>>>,
                 <<<<"A", "c", "m", "e">>, <<"a", "b", "c">>, <<"1", "2", "/", "0", "3", "/", "2", "0", "2", "4">>>>>>))

SignedXlsx ==
    File(<<"m", "i", "x", "e", "d", ".", "x", "l", "s", "x">>,
         Table(<<<<<<"N", "o", "m", "e">>, <<"V", "a", "l", "o", "r">>>>, <<<<"p", "i", "x", " ", "a", "c", "m", "e">>, <<"-", "1", "0", "0", "0", ".", "0", "0">>>>>>))

HeaderOnlyCsv == File(<<"e", "m", "p", "t", "y", ".", "c", "s", "v">>, Table(<<<<<<"N", "o", "m", "e">>, <<"V", "a", "l", "o", "r">>>>>>))

NoValueCsv == File(<<"n", "a", "m", "e", "s", ".", "c", "s", "v">>, Table(<<<<<<"N", "o", "m", "e">>>>, <<<<"A", "c", "m", "e">>>>>>))

BankOfx ==
    File(<<"b", "a", "n", "k", ".", "o", "f", "x">>,
         Statement(TRUE,
                   <<Transaction(-100000, Ordinal(2024, 3, 10), <<" ", "P", "I", "X", " ", "A", "C", "M", "E", " ">>,
                                 <<"r", "e", "f", " ", "1", "2", ".", "3", "4", "5", ".", "6", "7", "8", "/", "0", "0", "0", "1", "-", "9", "0">>, NoneStr, <<"X", "1">>),
                     Transaction(0, Ordinal(2024, 3, 11), NoneStr, NoneStr, NoneStr, <<"X", "2">>)>>))

EmptyOfx == File(<<"e", "m", "p", "t", "y", ".", "o", "f", "x">>, Statement(TRUE, <<>>))

UnreadableOfx == File(<<"b", "a", "d", ".", "o", "f", "x">>, Statement(FALSE, <<>>))

Wide ==
    File(<<"c", "o", "b", "r", "a", "n", "c", "a", ".", "r", "e", "t">>,
         FixedWidth(<<HeaderLine, TitleLine(240, "T", Code06, Amount1000),
                      SettlementLine(240, "U", Amount1030, Date12032024)>>))

WideZero ==
    File(<<"z", "e", "r", "o", ".", "r", "e", "m">>,
         FixedWidth(<<HeaderLine, TitleLine(241, "T", Code17, AmountZero),
                      SettlementLine(240, "u", AmountZero, Rep("0", 8))>>))

WideShort ==
    File(<<"s", "h", "o", "r", "t", ".", "c", "n", "a", "b">>, FixedWidth(<<TitleLine(239, "T", Code06, Amount1000)>>))

Narrow ==
    File(<<"r", "e", "t", "o", "r", "n", "o">>,
         FixedWidth(<<DetailLine(400, "0", Code06, Rep("0", 13), Rep("0", 13)),
                      DetailLine(400, "1", Code06, Amount13(<<"1", "0", "0", "0", "0", "0">>), Amount13(<<"1", "0", "0", "0", "0", "0">>))>>))

NarrowZero ==
    File(<<"r", "e", "t", "o", "r", "n", "o", ".", "t", "x", "t">>,
         FixedWidth(<<DetailLine(400, "1", <<"0", "2">>, Rep("0", 13), Rep("0", 13))>>))

TableAsText == File(<<"n", "o", "t", "e", "s", ".", "t", "x", "t">>, Table(<<<<<<"N", "o", "m", "e">>, <<"V", "a", "l", "o", "r">>>>, <<<<"A", "c", "m", "e">>, <<"1", ",", "0", "0">>>>>>))

Unnamed == File(<<>>, Table(<<>>))

\* the files a client uploads
Files ==
    {ReceivablesCsv, PaymentsCsv, SignedXlsx, HeaderOnlyCsv, NoValueCsv, BankOfx,
     UnreadableOfx, EmptyOfx, Wide, WideZero, WideShort, Narrow, NarrowZero, TableAsText, Unnamed}

\* parse_file(content, file.filename.lower()) of every file
Parsed == [file \in Files |-> ParseFile(file.content, Lower(file.filename))]

\* a request without session_token (None or "")
NoToken == 0

Init ==
    /\ receivables = <<>>
    /\ payments = <<>>
    /\ sessions = <<>>
    /\ runs = <<>>
    /\ loaded = [receivables |-> <<>>, payments |-> <<>>]
    /\ response = [op |-> "none", status |-> 0]
    /\ parser = NoParse
    /\ organizations = <<>>
    /\ users = <<>>

UploadRejectedOpensSession(file) ==
    /\ file.filename = <<>> \/ Parsed[file].raised
    /\ Len(sessions) < MaxSessions
    /\ sessions' = Append(sessions, AnonymousSession(1))
    /\ response' = [op |-> "upload", status |-> 400]
    /\ UNCHANGED <<receivables, payments, runs, loaded, parser, organizations, users>>

\* lines 28-29 and 34-37: no file name, or parse_file raised ValueError
UploadRejected(file) ==
    /\ file.filename = <<>> \/ Parsed[file].raised
    /\ response' = [op |-> "upload", status |-> 400]
    /\ UNCHANGED <<receivables, payments, sessions, runs, loaded, parser, organizations, users>>

\* lines 47-48: the token names no session
UploadNotFound(file, session_token) ==
    /\ file.filename # <<>> /\ ~Parsed[file].raised
    /\ session_token # NoToken /\ session_token \notin 1..Len(sessions)
    /\ response' = [op |-> "upload", status |-> 404]
    /\ UNCHANGED <<receivables, payments, sessions, runs, loaded, parser, organizations, users>>

\* lines 49-75: the parsed records are persisted under the session
Persist(result, session_token) ==
    LET session_id == IF session_token = NoToken THEN Len(sessions) + 1
                      ELSE session_token
        stored == Len(receivables) + Len(result.receivables)
                  + Len(payments) + Len(result.payments)
    IN  /\ Len(receivables) + Len(result.receivables) <= MaxRecv
        /\ Len(payments) + Len(result.payments) <= MaxPay
        /\ stored <= MaxRows
        /\ IF session_token = NoToken
           THEN /\ Len(sessions) < MaxSessions
                /\ sessions' = Append(sessions, AnonymousSession(1))
           ELSE /\ sessions[session_token].files_processed < MaxFiles
                /\ sessions' = [sessions EXCEPT ![session_token].files_processed = @ + 1]
        /\ receivables' = receivables \o InSession(result.receivables, session_id)
        /\ payments' = payments \o InSession(result.payments, session_id)
        /\ response' = [op |-> "upload", status |-> 200, session_token |-> session_id,
                        summary |-> [receivables_count |-> Len(result.receivables),
                                     payments_count |-> Len(result.payments),
                                     errors |-> result.errors]]

\* instant_upload(file, session_token) on a file that parses
InstantUpload(file, session_token) ==
    /\ file.filename # <<>> /\ ~Parsed[file].raised
    /\ session_token = NoToken \/ session_token \in 1..Len(sessions)
    /\ Persist(Parsed[file].value, session_token)
    /\ UNCHANGED <<runs, loaded, parser, organizations, users>>

Emails == {<<"a", "@", "x">>, <<"b", "@", "x">>}

Organization == [plan |-> "trial"]
User(organization_id, email) == [organization_id |-> organization_id, email |-> email, role |-> "admin"]

\* lines 83-85: the email is taken
RegisterEmailTaken(email) ==
    /\ \E k \in 1..Len(users) : users[k].email = email
    /\ response' = [op |-> "register", status |-> 400]
    /\ UNCHANGED <<receivables, payments, sessions, runs, loaded, parser, organizations, users>>

\* lines 119-132: the session's rows get the organization
Linked(rows, session_id, org_id) ==
    [i \in 1..Len(rows) |->
        IF rows[i].session_id = session_id
        THEN [rows[i] EXCEPT !.organization_id = org_id]
        ELSE rows[i]]

\* lines 87-154: a new organization and user, linked to the session's data
Register(email, session_token) ==
    /\ \A k \in 1..Len(users) : users[k].email # email
    /\ Len(organizations) < MaxOrgs
    /\ LET org_id == Len(organizations) + 1
           found == session_token # NoToken /\ session_token \in 1..Len(sessions)
           mine(rows) == Cardinality({i \in 1..Len(rows) : rows[i].session_id = session_token})
       IN  /\ organizations' = Append(organizations, Organization)
           /\ users' = Append(users, User(org_id, email))
           /\ receivables' = IF found THEN Linked(receivables, session_token, org_id)
                             ELSE receivables
           /\ payments' = IF found THEN Linked(payments, session_token, org_id)
                          ELSE payments
           /\ sessions' = IF found
                          THEN [sessions EXCEPT ![session_token].converted_to_org_id = org_id]
                          ELSE sessions
           /\ response' = [op |-> "register", status |-> 200, organization_id |-> org_id,
                           linked_data |->
                               [receivables |-> IF found THEN mine(receivables) ELSE 0,
                                payments |-> IF found THEN mine(payments) ELSE 0]]
    /\ UNCHANGED <<runs, loaded, parser>>

Next ==
    \/ \E file \in Files : UploadRejected(file)
    \/ \E file \in Files, session_token \in Tokens : UploadNotFound(file, session_token)
    \/ \E file \in Files, session_token \in {NoToken} \cup Tokens :
          InstantUpload(file, session_token)
    \/ \E session_token \in Tokens : ConciliateNotFound(session_token)
    \/ \E session_token \in Tokens : InstantConciliate(session_token)
    \/ \E email \in Emails : RegisterEmailTaken(email)
    \/ \E email \in Emails, session_token \in {NoToken} \cup Tokens :
          Register(email, session_token)

Spec == Init /\ [][Next]_vars

----------------------------------------------------------------------------
(* parse_file on every pairing of a name with a file's bytes *)

\* names as parse_file receives them
FileNames ==
    {<<"a", ".", "c", "s", "v">>, <<"a", ".", "x", "l", "s", "x">>, <<"a", ".", "x", "l", "s">>,
     <<"a", ".", "o", "f", "x">>, <<"a", ".", "r", "e", "t">>, <<"a", ".", "r", "e", "m">>,
     <<"a", ".", "c", "n", "a", "b">>, <<"a", ".", "t", "x", "t">>, <<"a">>, <<"c", "s", "v">>,
     <<"a", ".", "C", "S", "V">>, <<"a", ".", "c", "s", "v", ".", "t", "x", "t">>,
     <<"a", ".", "o", "f", "x", ".", "r", "e", "t">>, <<".", "o", "f", "x">>,
     <<"a", ".", "x", "l", "s", "m">>, <<"a", ".", "r", "e", "t", "o", "r", "n", "o">>}

\* bytes of every kind: a sheet, a statement, fixed-width files whose first
\* line has 240, 400 and 239 characters, and an empty file
FileContents ==
    {ReceivablesCsv.content, BankOfx.content, Wide.content, Narrow.content,
     WideShort.content, FixedWidth(<<>>)}

\* the parser is modelled on bytes of its own kind
Readable(called, content) ==
    \/ called \in {"parse_cnab_content", "ValueError"}
    \/ called \in {"parse_csv_content", "parse_xlsx_content"} /\ "rows" \in DOMAIN content
    \/ called = "parse_ofx_content" /\ "transactions" \in DOMAIN content

InitDispatch ==
    /\ \E filename \in FileNames, content \in FileContents :
          response = [op |-> "file", filename |-> filename, content |-> content]
    /\ receivables = <<>>
    /\ payments = <<>>
    /\ sessions = <<>>
    /\ runs = <<>>
    /\ loaded = [receivables |-> <<>>, payments |-> <<>>]
    /\ parser = NoParse
    /\ organizations = <<>>
    /\ users = <<>>

\* parse_file(content, filename) on bytes the parser called is modelled for
ParseReadable ==
    /\ response.op = "file"
    /\ Readable(Dispatch(response.content, response.filename), response.content)
    /\ response' = [op |-> "parse_file", filename |-> response.filename,
                    content |-> response.content,
                    called |-> Dispatch(response.content, response.filename),
                    raised |-> ParseFile(response.content, response.filename).raised]
    /\ UNCHANGED <<receivables, payments, sessions, runs, loaded, parser, organizations, users>>

\* parse_file(content, filename) up to the call of a parser of another kind
ParseOther ==
    /\ response.op = "file"
    /\ ~Readable(Dispatch(response.content, response.filename), response.content)
    /\ response' = [op |-> "parse_file", filename |-> response.filename,
                    content |-> response.content,
                    called |-> Dispatch(response.content, response.filename)]
    /\ UNCHANGED <<receivables, payments, sessions, runs, loaded, parser, organizations, users>>

NextDispatch == ParseReadable \/ ParseOther

SpecDispatch == InitDispatch /\ [][NextDispatch]_vars

----------------------------------------------------------------------------
(* run_conciliation under a session scope and under an organization scope,
   on rows of two sessions, one of them partly linked to an organization *)

\* <<session_id, organization_id>> of a stored row: session 1 before and
\* after its conversion, session 2
RowScopes == {<<1, NoneId>>, <<1, 1>>, <<2, NoneId>>}

\* equal amounts everywhere, so that only scope and status keep rows apart
ScopeRecvs ==
    {[Receivable(NoneStr, NoneStr, 100000, NoneDate, kind[1], kind[2])
        EXCEPT !.session_id = scope[1], !.organization_id = scope[2]] :
        scope \in RowScopes,
        kind \in {<<"pending", "csv">>, <<"conciliated", "csv">>, <<"conciliated", "cnab240">>}}

ScopePays ==
    {[Payment(NoneStr, NoneStr, 100000, NoneDate, NoneStr, "csv")
        EXCEPT !.session_id = scope[1], !.organization_id = scope[2],
               !.matched_receivable_id = link,
               !.match_status = IF link = NoneId THEN "unmatched" ELSE "auto"] :
        scope \in RowScopes, link \in 0..MaxRecv}

\* an earlier run linked the payment to a receivable of its session, which
\* it marked conciliated, and linked no other payment to it
LinksConsistent(recvs, pays) ==
    \A j \in 1..Len(pays) :
        pays[j].matched_receivable_id # NoneId =>
            /\ pays[j].matched_receivable_id <= Len(recvs)
            /\ recvs[pays[j].matched_receivable_id].status = "conciliated"
            /\ recvs[pays[j].matched_receivable_id].session_id = pays[j].session_id
            /\ \A k \in 1..Len(pays) :
                  pays[k].matched_receivable_id = pays[j].matched_receivable_id => k = j

InitScope ==
    /\ \E recvs \in SeqsUpTo(ScopeRecvs, MaxRecv), pays \in SeqsUpTo(ScopePays, MaxPay) :
          /\ LinksConsistent(recvs, pays)
          /\ receivables = recvs
          /\ payments = pays
    /\ sessions = <<[AnonymousSession(1) EXCEPT !.converted_to_org_id = 1], AnonymousSession(1)>>
    /\ organizations = <<Organization>>
    /\ users = <<>>
    /\ runs = <<>>
    /\ loaded = [receivables |-> <<>>, payments |-> <<>>]
    /\ response = [op |-> "none", status |-> 0]
    /\ parser = NoParse

NextScope ==
    \/ \E session_id \in 1..Len(sessions) : RunConciliation(session_id, NoneId)
    \/ \E organization_id \in 1..Len(organizations) : RunConciliation(NoneId, organization_id)

SpecScope == InitScope /\ [][NextScope]_vars

----------------------------------------------------------------------------
(* Two instant_conciliate requests of one session served at the same time.
   Each request has its own database session (async_session()); it yields at
   every await: the two selects and the commit.  `loaded` holds the locals
   of each request.  The commit flushes one UPDATE per claimed object,
   addressed by primary key, and the INSERT of the run. *)

Requests == {1, 2}

InitRace ==
    /\ \E rs \in SeqsUpTo(MatchRecvs, MaxRecv) : receivables = InSession(rs, 1)
    /\ \E ps \in SeqsUpTo(MatchPays, MaxPay) : payments = InSession(ps, 1)
    /\ sessions = <<AnonymousSession(1)>>
    /\ runs = <<>>
    /\ loaded = [request \in Requests |-> Idle]
    /\ response = [op |-> "none", status |-> 0]
    /\ parser = NoParse
    /\ organizations = <<>>
    /\ users = <<>>

\* requests between their first select and their commit
InFlight == {request \in Requests : loaded[request].pc # "idle"}

\* conciliation.py line 107: await db.execute(recv_stmt)
SelectReceivablesOf(request) ==
    /\ loaded[request].pc = "idle"
    /\ Len(runs) + Cardinality(InFlight) < MaxRuns
    /\ \E recvs \in Orders(SelectedReceivables(1, NoneId)) :
          loaded' = [loaded EXCEPT ![request] =
                        [pc |-> "payments", receivables |-> recvs, payments |-> <<>>]]
    /\ UNCHANGED <<receivables, payments, sessions, runs, response, parser, organizations, users>>

\* conciliation.py line 108: await db.execute(pay_stmt)
SelectPaymentsOf(request) ==
    /\ loaded[request].pc = "payments"
    /\ \E pays \in Orders(SelectedPayments(1, NoneId)) :
          loaded' = [loaded EXCEPT ![request].pc = "walk", ![request].payments = pays]
    /\ UNCHANGED <<receivables, payments, sessions, runs, response, parser, organizations, users>>

\* the pairs of a match list whose rows are still pending and unmatched
StillFree(matches) ==
    SelectSeq(matches, LAMBDA m : /\ receivables[m.recv].status = "pending"
                                  /\ payments[m.pay].match_status = "unmatched")

CommitRechecked(request) ==
    /\ loaded[request].pc = "walk"
    /\ receivables' = ReceivablesAfter(StillFree(Matches(loaded[request].receivables, loaded[request].payments)))
    /\ payments' = PaymentsAfter(StillFree(Matches(loaded[request].receivables, loaded[request].payments)))
    /\ runs' = Append(runs, FinishedRun(1, NoneId, loaded[request].receivables, loaded[request].payments,
                                        StillFree(Matches(loaded[request].receivables, loaded[request].payments))))
    /\ response' = RunResult(NoneId, loaded[request].receivables, loaded[request].payments,
                             StillFree(Matches(loaded[request].receivables, loaded[request].payments)))
    /\ loaded' = [loaded EXCEPT ![request].pc = "idle"]
    /\ UNCHANGED <<sessions, parser, organizations, users>>

\* conciliation.py lines 110-205 on the objects the request selected, and
\* instant.py line 114: the commit writes every claimed object back
CommitOf(request) ==
    /\ loaded[request].pc = "walk"
    /\ receivables' = ReceivablesAfter(Matches(loaded[request].receivables, loaded[request].payments))
    /\ payments' = PaymentsAfter(Matches(loaded[request].receivables, loaded[request].payments))
    /\ runs' = Append(runs, FinishedRun(1, NoneId, loaded[request].receivables, loaded[request].payments,
                                        Matches(loaded[request].receivables, loaded[request].payments)))
    /\ response' = RunResult(NoneId, loaded[request].receivables, loaded[request].payments,
                             Matches(loaded[request].receivables, loaded[request].payments))
    /\ loaded' = [loaded EXCEPT ![request].pc = "idle"]
    /\ UNCHANGED <<sessions, parser, organizations, users>>

NextRace ==
    \/ \E request \in Requests : SelectReceivablesOf(request)
    \/ \E request \in Requests : SelectPaymentsOf(request)
    \/ \E request \in Requests : CommitOf(request)

SpecRace == InitRace /\ [][NextRace]_vars

----------------------------------------------------------------------------
(* detect_column_type on drawn headers and samples *)

MaxSamples == 10

\* one word of each rule, and a header no rule knows
HeaderWords ==
    <<<<"n", "o", "m", "e">>, <<"c", "n", "p", "j">>, <<"v", "a", "l", "o", "r">>,
      <<"d", "a", "t", "a">>, <<"s", "a", "c", "a", "d", "o">>, <<"q">>>>

\* every word alone, every two words in both orders, and two spellings that
\* need lower() and strip()
ColumnHeaders ==
    {HeaderWords[i] : i \in 1..Len(HeaderWords)}
    \cup {HeaderWords[pair[1]] \o <<Space>> \o HeaderWords[pair[2]] :
            pair \in {ij \in (1..Len(HeaderWords)) \X (1..Len(HeaderWords)) : ij[1] # ij[2]}}
    \cup {<<Space, "N", "o", "m", "e", Space>>, <<"S", "A", "C", "A", "D", "O">>,
          <<"P", "a", "g", "a", "d", "o", "r">>, <<"C", "e", "d", "e", "n", "t", "e">>,
          <<"d", "e", "v", "e", "d", "o", "r">>}

SampleWord == <<"A", "c", "m", "e">>
SampleAmount == <<"1", "0", ",", "5", "0">>
SampleDate == <<"1", "0", "/", "0", "3", "/", "2", "0", "2", "4">>
SampleCpf == <<"1", "2", "3", ".", "4", "5", "6", ".", "7", "8", "9", "-", "0", "1">>
SampleCnpj ==
    <<"1", "2", ".", "3", "4", "5", ".", "6", "7", "8", "/", "0", "0", "0", "1", "-", "9", "0">>

\* up to MaxSamples cells of which any number are identifiers; columns of
\* amounts, of dates, of blanks; identifiers among blanks
ColumnSamples ==
    UNION {{Rep(SampleCnpj, k) \o Rep(SampleWord, n - k) : k \in 0..n} : n \in 0..MaxSamples}
    \cup {<<SampleAmount, SampleAmount>>, <<SampleDate, SampleDate>>, <<<<Space>>, <<>>>>,
          <<<<Space>>, SampleCpf, SampleWord, SampleWord, <<>>>>,
          <<<<Space>>, SampleCpf, SampleWord, SampleWord, SampleWord>>}

InitColumn ==
    /\ \E header \in ColumnHeaders, sample_values \in ColumnSamples :
          parser = [header |-> header, sample_values |-> sample_values]
    /\ response = [op |-> "none", status |-> 0]
    /\ receivables = <<>>
    /\ payments = <<>>
    /\ sessions = <<>>
    /\ runs = <<>>
    /\ loaded = [receivables |-> <<>>, payments |-> <<>>]
    /\ organizations = <<>>
    /\ users = <<>>

DetectColumn ==
    /\ response.op = "none"
    /\ response' = [op |-> "detect_column_type", status |-> 0,
                    col_type |-> DetectColumnType(parser.header, parser.sample_values)]
    /\ UNCHANGED <<receivables, payments, sessions, runs, loaded, parser, organizations, users>>

SpecColumn == InitColumn /\ [][DetectColumn]_vars

\* the last handler was a conciliation run that completed
RunReturned == response.op = "conciliate" /\ response.status = 200

----------------------------------------------------------------------------
(* C1: one run's match list names every receivable at most once and every
   payment at most once. *)
C1_NoDoubleClaim ==
    RunReturned =>
        \A i, j \in 1..Len(response.matches) :
            i # j => /\ response.matches[i].recv # response.matches[j].recv
                     /\ response.matches[i].pay # response.matches[j].pay

\* a run that claimed two pairs and skipped a candidate whose side was taken
C1_Witness ==
    /\ RunReturned
    /\ Len(response.matches) = 2
    /\ Len(PotentialMatches(loaded.receivables, loaded.payments)) > 2

----------------------------------------------------------------------------
(* C3 *)

\* what the run would have returned had it loaded the same rows in another order
SameCountAndSum(recvs, pays) ==
    LET other == Matches(recvs, pays) IN
    /\ Len(other) = Len(response.matches)
    /\ SumConfidence(other) = SumConfidence(response.matches)

OrderIndependent ==
    \A recvs \in Orders(Range(loaded.receivables)),
       pays \in Orders(Range(loaded.payments)) : SameCountAndSum(recvs, pays)

\* two candidate pairs that share a receivable or a payment and score the same
TiedConflict ==
    LET pm == PotentialMatches(loaded.receivables, loaded.payments) IN
    \E i, j \in 1..Len(pm) :
        /\ i # j
        /\ pm[i].confidence = pm[j].confidence
        /\ (pm[i].recv = pm[j].recv \/ pm[i].pay = pm[j].pay)

(* C3 as claimed: whatever the order in which the same receivables and
   payments are loaded, the run matches the same number of pairs with the
   same total confidence, equal scores included. *)
C3_AnyOrder == RunReturned => OrderIndependent

(* C3 amended: the same holds when no two candidate pairs that share a
   receivable or a payment have equal scores. *)
C3_NoTiedConflict == (RunReturned /\ ~TiedConflict) => OrderIndependent

\* a run over two receivables and two payments with conflicting candidates
\* of different scores
C3_Witness ==
    /\ RunReturned /\ ~TiedConflict
    /\ Len(loaded.receivables) = 2 /\ Len(loaded.payments) = 2
    /\ Len(PotentialMatches(loaded.receivables, loaded.payments)) >= 2
    /\ Len(response.matches) = 1

----------------------------------------------------------------------------
(* C9, C10: the scorer, stated apart from the code *)

\* |face - amount| / face exceeds pct percent
RelDiffExceeds(recv, pay, pct) ==
    /\ recv.face_value > 0
    /\ 100 * Abs(recv.face_value - pay.amount) > pct * recv.face_value

CandidatePair(r, p) ==
    LET pm == PotentialMatches(loaded.receivables, loaded.payments) IN
    \E k \in 1..Len(pm) : pm[k].recv = r /\ pm[k].pay = p

MatchedPair(r, p) ==
    \E k \in 1..Len(response.matches) :
        response.matches[k].recv = r /\ response.matches[k].pay = p

(* C9: a pair whose relative value difference exceeds 5% scores 0 whatever
   its identifiers, names and dates, is no candidate and is never matched. *)
C9_ValueVeto ==
    \A r \in 1..Len(receivables), p \in 1..Len(payments) :
        RelDiffExceeds(receivables[r], payments[p], 5) =>
            /\ MatchConfidence(receivables[r], payments[p]) = 0
            /\ RunReturned => ~CandidatePair(r, p) /\ ~MatchedPair(r, p)

\* 500.00 against 800.00 with equal identifier and equal date, after a run
C9_Witness ==
    /\ RunReturned
    /\ Len(loaded.receivables) = 1 /\ Len(loaded.payments) = 1
    /\ receivables[1].face_value = 50000 /\ payments[1].amount = 80000
    /\ receivables[1].debtor_cnpj = Cnpj1 /\ payments[1].payer_cnpj = Cnpj1
    /\ receivables[1].due_date = 100 /\ payments[1].date = 100
    /\ response.matches = <<>>

ValueTier(recv, pay) ==
    IF ~RelDiffExceeds(recv, pay, 1) /\ 1000 * Abs(recv.face_value - pay.amount) <= recv.face_value
    THEN 40
    ELSE IF ~RelDiffExceeds(recv, pay, 2) THEN 30 ELSE 15

IdentifierEqual(recv, pay) ==
    /\ recv.debtor_cnpj \notin {NoneStr, <<>>}
    /\ pay.payer_cnpj \notin {NoneStr, <<>>}
    /\ recv.debtor_cnpj = pay.payer_cnpj

NameBonus(recv, pay) ==
    LET rw == IF recv.debtor_name = NoneStr THEN {}
              ELSE NameWords(recv.debtor_name, RecvStopWords)
        pw == IF pay.payer_name = NoneStr THEN {}
              ELSE NameWords(pay.payer_name, PayStopWords)
        shared == rw \cap pw
    IN  CASE Cardinality(shared) >= 2 -> 10
          [] Cardinality(shared) = 1 /\ Cardinality(rw) <= 3 -> 5
          [] OTHER -> 0

DateTier(recv, pay) ==
    IF recv.due_date = NoneDate \/ pay.date = NoneDate THEN 0
    ELSE LET d == Abs(recv.due_date - pay.date) IN
         CASE d = 0 -> 25
           [] d \in 1..3 -> 18
           [] d \in 4..7 -> 12
           [] d \in 8..15 -> 6
           [] d \in 16..30 -> 3
           [] OTHER -> 0

ExpectedScore(recv, pay) ==
    Min(100, ValueTier(recv, pay)
             + (IF IdentifierEqual(recv, pay) THEN 35 ELSE NameBonus(recv, pay))
             + DateTier(recv, pay))

(* C10: a pair the value does not veto scores value tier + 35 for equal
   identifiers + name bonus (only without identifier match) + date tier,
   capped at 100, and the run records that score; an exact pair with equal
   identifier and date scores 100. *)
C10_ScoreIsSumOfTiers ==
    \A r \in 1..Len(receivables), p \in 1..Len(payments) :
        LET recv == receivables[r]
            pay == payments[p]
        IN  (recv.face_value > 0 /\ ~RelDiffExceeds(recv, pay, 5)) =>
                /\ MatchConfidence(recv, pay) = ExpectedScore(recv, pay)
                /\ MatchConfidence(recv, pay) \in 15..100
                /\ (recv.face_value = pay.amount /\ IdentifierEqual(recv, pay)
                      /\ recv.due_date # NoneDate /\ recv.due_date = pay.date)
                     => MatchConfidence(recv, pay) = 100
                /\ RunReturned =>
                      \A k \in 1..Len(response.matches) :
                          (response.matches[k].recv = r /\ response.matches[k].pay = p)
                              => response.matches[k].confidence = ExpectedScore(recv, pay)

\* 1000.00 against 1030.00 (3%), no identifier, same date: matched at 40
C10_Witness ==
    /\ RunReturned
    /\ Len(response.matches) = 1
    /\ receivables[1].face_value = 100000 /\ payments[1].amount = 103000
    /\ receivables[1].debtor_cnpj = NoneStr
    /\ receivables[1].debtor_name = NoneStr
    /\ receivables[1].due_date = 100 /\ payments[1].date = 100
    /\ response.matches[1].confidence = 40

----------------------------------------------------------------------------
(* C4, C5: the wide fixed-width parser, stated on the text of the file *)

LineAt(k) == Render(parser.lines[k])

\* a detail line of full length carrying the given segment letter
IsSegment(text, letter) ==
    Len(text) >= 240 /\ text[8] = "3" /\ text[14] \in {letter, UpperChar(letter)}

\* a title segment that decodes and carries a positive face value
WellFormedTitle(text) ==
    /\ IsSegment(text, "t")
    /\ ~CnabParseValue(Slice(text, 81, 96)).raised
    /\ CnabParseValue(Slice(text, 81, 96)).value > 0

\* a settlement segment that decodes
WellFormedSettlement(text) ==
    /\ IsSegment(text, "u")
    /\ ~CnabParseValue(Slice(text, 77, 92)).raised
    /\ ~CnabParseValue(Slice(text, 17, 32)).raised
    /\ ~CnabParseValue(Slice(text, 32, 47)).raised

\* the well-formed titles with no settlement segment before the next title
\* segment or the end of the file
LoneTitles ==
    {i \in 1..Len(parser.lines) :
        /\ WellFormedTitle(LineAt(i))
        /\ \A j \in (i + 1)..Len(parser.lines) :
              IsSegment(LineAt(j), "u") =>
                  \E k \in (i + 1)..(j - 1) : IsSegment(LineAt(k), "t")}

RemoveAt(seq, i) == SubSeq(seq, 1, i - 1) \o SubSeq(seq, i + 1, Len(seq))

\* what the parser returns for the file without its i-th line
ParsedWithout(i) == Cnab240Lines(Cnab240Start, RemoveAt(parser.lines, i), 1)

(* C4: a well-formed title segment with no settlement segment before the
   next title segment or the end of the file yields exactly one receivable
   and no payment: the parse has one receivable more, and the same
   payments, than the parse of the file without that line. *)
C4_LoneTitleYieldsReceivable ==
    parser.done =>
        \A i \in LoneTitles :
            /\ Len(parser.receivables) = Len(ParsedWithout(i).receivables) + 1
            /\ parser.payments = ParsedWithout(i).payments

PaidCodes == {<<"0", "6">>, <<"0", "7">>, <<"1", "0">>, <<"1", "7">>}

\* the loop is about to read a settlement that follows a buffered title
PairCompletes ==
    /\ ~parser.done /\ parser.line_num < Len(parser.lines)
    /\ parser.seg_t # NoSegT
    /\ WellFormedSettlement(LineAt(parser.line_num + 1))

\* the occurrence code on the line of the buffered title
TitleCode == Strip(Slice(LineAt(parser.seg_t.line), 15, 17))

SettledAmount == CnabParseValue(Slice(LineAt(parser.line_num + 1), 77, 92)).value

(* C5: reading the settlement of an adjacent title -> settlement pair adds
   exactly one receivable, 'conciliated' if the title's occurrence code is
   06, 07, 10 or 17 and 'pending' otherwise, and adds exactly one payment
   if the code is one of those and the settled amount is positive, and no
   payment otherwise. *)
C5_PairOutcome ==
    [][(PairCompletes /\ parser'.line_num = parser.line_num + 1) =>
          LET paid == TitleCode \in PaidCodes IN
          /\ Len(parser'.receivables) = Len(parser.receivables) + 1
          /\ parser'.receivables[Len(parser'.receivables)].status =
                 (IF paid THEN "conciliated" ELSE "pending")
          /\ Len(parser'.payments) =
                 Len(parser.payments) + (IF paid /\ SettledAmount > 0 THEN 1 ELSE 0)
          /\ SubSeq(parser'.receivables, 1, Len(parser.receivables)) = parser.receivables
          /\ SubSeq(parser'.payments, 1, Len(parser.payments)) = parser.payments]_vars

\* code 06 and a positive settled amount: one conciliated receivable, one payment
C5_Witness ==
    /\ parser.line_num = 2 /\ Len(parser.lines) >= 2
    /\ Strip(Slice(LineAt(1), 15, 17)) = <<"0", "6">>
    /\ WellFormedTitle(LineAt(1)) /\ WellFormedSettlement(LineAt(2))
    /\ Len(parser.receivables) = 1
    /\ parser.receivables[1].status = "conciliated"
    /\ Len(parser.payments) = 1
    /\ parser.payments[1].amount = 103000

----------------------------------------------------------------------------
(* Stored rows across uploads, runs and registrations *)

HasLink(pay) == pay.matched_receivable_id # NoneId

\* C2: a payment whose match status is auto or manual has a matched-receivable
\* link, and a payment whose match status is unmatched has none
C2_StatusAgreesWithLink ==
    \A i \in 1..Len(payments) :
        /\ payments[i].match_status \in {"auto", "manual"} => HasLink(payments[i])
        /\ payments[i].match_status = "unmatched" => ~HasLink(payments[i])

\* an uploaded payment was claimed by a run and its session then converted,
\* beside a payment left unmatched
C2_Witness ==
    /\ \E i \in 1..Len(payments) :
          /\ payments[i].match_status = "auto" /\ HasLink(payments[i])
          /\ payments[i].organization_id # NoneId
    /\ \E i \in 1..Len(payments) : payments[i].match_status = "unmatched"
    /\ runs # <<>>

\* C6: every stored receivable has a face value above zero and every stored
\* payment an amount above zero
C6_PositiveAmounts ==
    /\ \A i \in 1..Len(receivables) : receivables[i].face_value > 0
    /\ \A i \in 1..Len(payments) : payments[i].amount > 0

\* C7: no stored receivable and no stored payment references a session and an
\* organization at once
C7_OneOwningScope ==
    /\ \A i \in 1..Len(receivables) :
          ~(receivables[i].session_id # NoneId /\ receivables[i].organization_id # NoneId)
    /\ \A i \in 1..Len(payments) :
          ~(payments[i].session_id # NoneId /\ payments[i].organization_id # NoneId)

\* a step of a conciliation run
RunStep == Len(runs') = Len(runs) + 1

SameButStatus(before, after) == after = [before EXCEPT !.status = after.status]

SameButMatch(before, after) ==
    after = [before EXCEPT !.matched_receivable_id = after.matched_receivable_id,
                           !.match_status = after.match_status]

\* C8: a run adds and removes no receivable and no payment, and changes nothing
\* of a row but a receivable's status and a payment's link and match status
C8_RunFrame ==
    [][RunStep =>
         /\ Len(receivables') = Len(receivables)
         /\ Len(payments') = Len(payments)
         /\ \A i \in 1..Len(receivables) : SameButStatus(receivables[i], receivables'[i])
         /\ \A i \in 1..Len(payments) : SameButMatch(payments[i], payments'[i])]_vars

\* a run over uploaded rows claimed a pair and left another row of the tables alone
C8_Witness ==
    /\ RunReturned /\ sessions # <<>> /\ Len(response.matches) = 1
    /\ Len(receivables) + Len(payments) = 3
    /\ \E i \in 1..Len(receivables) : receivables[i].status = "conciliated"
                                        /\ receivables[i].source = "csv"

----------------------------------------------------------------------------
(* The fixed-width parsers line by line *)

\* the loop is about to read a line shorter than the sub-format length
ShortLineNext == Reading /\ Len(NextLine) < parser.width

(* C11: in both fixed-width parsers a line shorter than the sub-format
   length (240 or 400) is skipped: the loop goes on to the next line, and
   the receivables, the payments, the row errors and (in the wide parser)
   the buffered title are what they were. *)
C11_ShortLineSkipped ==
    [][ShortLineNext =>
          /\ parser'.line_num = parser.line_num + 1
          /\ ~parser'.done
          /\ parser'.receivables = parser.receivables
          /\ parser'.payments = parser.payments
          /\ parser'.errors = parser.errors
          /\ parser'.seg_t = parser.seg_t]_vars

\* a short line was just skipped while a title was buffered
C11_Witness ==
    /\ parser.line_num >= 1
    /\ Len(LineAt(parser.line_num)) < parser.width
    /\ parser.width = 240
    /\ parser.seg_t # NoSegT

----------------------------------------------------------------------------
(* Amounts written and read back *)

Dots(text) == Cardinality({i \in 1..Len(text) : text[i] = "."})

(* C12: a positive amount of at most two fractional digits, written with
   dots between the thousands and a comma before the cents, is read back by
   parse_monetary_value as the same value. *)
C12_RoundTrip ==
    response.op = "parse_monetary_value" =>
        /\ response.value # NoneDec
        /\ response.value.scale <= 2
        /\ Cents(response.value) = response.amount

\* an amount with two thousands separators was read back
C12_Witness ==
    /\ response.op = "parse_monetary_value"
    /\ Dots(response.text) = 2
    /\ response.value # NoneDec

----------------------------------------------------------------------------
(* Uploads of files that do not parse *)

\* a file of each kind of failure: fewer than two rows, no value column,
\* first line of neither length, no transactions, unreadable statement,
\* unsupported format
ParseLevelFailures ==
    {HeaderOnlyCsv, NoValueCsv, WideShort, EmptyOfx, UnreadableOfx, TableAsText}

FailedUpload == response.op = "upload" /\ response.status = 400

(* C13: when parse_file fails as a whole it returns no records, no upload
   of that file persists anything, and the rejected upload leaves the
   receivables, payments, sessions, runs, organizations and users as they
   were. *)
C13_FailedParseStoresNothing ==
    /\ [](\A file \in Files :
            Parsed[file].raised =>
                /\ "value" \notin DOMAIN Parsed[file]
                /\ \A session_token \in {NoToken} \cup Tokens :
                      ~ENABLED InstantUpload(file, session_token))
    /\ [](\A file \in ParseLevelFailures : Parsed[file].raised)
    /\ [][FailedUpload' =>
            UNCHANGED <<receivables, payments, sessions, runs, organizations, users>>]_vars

\* an upload was rejected while rows and a session were stored
C13_Witness ==
    /\ FailedUpload
    /\ receivables # <<>>
    /\ payments # <<>>
    /\ sessions # <<>>

----------------------------------------------------------------------------
(* C14: one row that fails to decode *)

\* the rows the parse recorded an error for
ErrorRows == {parser.errors[k].row : k \in DOMAIN parser.errors}

\* the parse went through every row and returned
Finished == parser.done /\ (parser.width = 0 => ~parser.raised)

Records(st) == <<st.receivables, st.payments>>

\* what the parser of the file's kind returns on the whole file
WholeParse ==
    IF parser.width = 240 THEN ParseCnab240Content(parser.lines)
    ELSE IF parser.width = 400 THEN ParseCnab400Content(parser.lines)
    ELSE ParseCsvContent([rows |-> parser.lines])

\* the records the parser of the file's kind emits on other rows; none when
\* it refuses them
RecordsOf(lines) ==
    IF parser.width = 240 THEN Records(Cnab240Lines(Cnab240Start, lines, 1))
    ELSE IF parser.width = 400 THEN Records(Cnab400Lines(Cnab240Start, lines, 1))
    ELSE IF SheetRefused(lines) THEN <<<<>>, <<>>>>
    ELSE Records(BuildRows(SheetColumns(lines), Tail(lines), 1, "csv",
                           DetectFileType(lines[1])))

\* the records of two files, one after the other
OneAfterTheOther(first, second) == <<first[1] \o second[1], first[2] \o second[2]>>

\* the position an error of the row just read carries: the line number in a
\* fixed-width file, the sheet row (the header is row 1) in a sheet
PositionRead == IF parser.width = 0 THEN parser.line_num + 1 ELSE parser.line_num

\* a sheet row whose amount is not a number, in a sheet of receivables
NaNRows ==
    IF parser.width # 0 \/ DetectFileType(parser.lines[1]) = "payment" THEN {}
    ELSE {i \in 2..Len(parser.lines) : IsNaNText(parser.lines[i][1])}

(* C14 as stated: the other rows yield exactly the records the file would
   yield if the failing row were absent. *)
C14_AsIfRowAbsent ==
    Finished =>
        \A i \in ErrorRows : RecordsOf(RemoveAt(parser.lines, i)) = Records(parser)

(* C14: when decoding one row raises, the parser records exactly one error
   entry carrying that row's 1-based position, emits no record for it,
   continues with the following rows, and the parse as a whole succeeds.
   The other rows yield the records of the file without the failing row in
   the 400 parser, and in a sheet whose columns are detected alike without
   it; in the 240 parser, where a failing segment also empties the title
   buffer, the lines before it and the lines after it yield the records
   they would yield as two files. *)
C14_RowErrorIsolated ==
    /\ [][parser'.errors # parser.errors =>
            /\ parser'.errors = Append(parser.errors, RowError(PositionRead'))
            /\ Records(parser') = Records(parser)
            /\ ~parser'.done]_vars
    /\ [](Finished =>
            /\ ~WholeParse.raised
            /\ WholeParse.value =
                  ParseResult(parser.receivables, parser.payments, parser.errors)
            /\ NaNRows \subseteq ErrorRows)
    /\ [](Finished =>
            \A i \in ErrorRows :
                LET without == RemoveAt(parser.lines, i)
                    before == SubSeq(parser.lines, 1, i - 1)
                    after == SubSeq(parser.lines, i + 1, Len(parser.lines))
                IN  /\ parser.width = 400 => RecordsOf(without) = Records(parser)
                    /\ parser.width = 0 /\ SheetColumns(without) = SheetColumns(parser.lines)
                          => RecordsOf(without) = Records(parser)
                    /\ parser.width = 240 =>
                          OneAfterTheOther(RecordsOf(before), RecordsOf(after))
                              = Records(parser))

\* a 240 file was parsed to its end: its first segment failed and the
\* segments after it made a record
C14_Witness ==
    /\ Finished
    /\ parser.width = 240
    /\ 1 \in ErrorRows
    /\ parser.receivables # <<>>

----------------------------------------------------------------------------
(* C15: whatever rows are in scope, a run that started ends completed; no
   request for a run ends in an error, and none stops while its run is still
   'running'. *)
C15_RunCompletes ==
    /\ [](response.op = "conciliate" => response.status # 500)
    /\ [](loaded.pc = "idle" /\ response.op = "conciliate" /\ response.status # 404 =>
            /\ runs # <<>>
            /\ runs[Len(runs)].status = "completed")
    /\ (loaded.pc # "idle") ~> (loaded.pc = "idle" /\ RunReturned)

----------------------------------------------------------------------------
(* C16: the life of a ConciliationRun *)

\* a request is being served: it holds a run
Serving == loaded.pc # "idle"

\* the step claims a pair
ClaimStep == receivables' # receivables \/ payments' # payments

(* C16: the run is created before any pair is claimed, 'running', without
   a completion time and with the totals of the loaded rows; it becomes
   'completed', with a completion time, in one step taken when the walk has
   ended and no pair is claimed after it; only its own request changes it,
   a committed run is never changed or deleted, and no completed run is
   'running' again. *)
C16_RunLifecycle ==
    /\ [][~Serving /\ Serving' =>
            /\ loaded'.run.status = "running"
            /\ ~loaded'.run.completed
            /\ loaded'.run.total_receivables = Len(loaded'.receivables)
            /\ loaded'.run.total_payments = Len(loaded'.payments)
            /\ loaded'.matches = <<>>
            /\ ~ClaimStep]_vars
    /\ [][ClaimStep =>
            /\ Serving /\ Serving'
            /\ loaded.run.status = "running" /\ ~loaded.run.completed
            /\ loaded'.run = loaded.run]_vars
    /\ [][Serving /\ Serving' /\ loaded'.run # loaded.run =>
            /\ loaded.pc = "walk" /\ loaded.potential_matches = <<>>
            /\ loaded.run.status = "running"
            /\ loaded'.run.status = "completed" /\ loaded'.run.completed
            /\ loaded'.run.session_id = loaded.run.session_id
            /\ loaded'.run.total_receivables = loaded.run.total_receivables
            /\ loaded'.run.total_payments = loaded.run.total_payments]_vars
    /\ [][/\ Len(runs') >= Len(runs)
          /\ \A i \in 1..Len(runs) : runs'[i] = runs[i]
          /\ runs' # runs =>
                /\ Serving
                /\ loaded.run.status = "completed" /\ loaded.run.completed
                /\ runs' = Append(runs, loaded.run)]_vars

\* a pair is claimed while the run is 'running'
C16_Witness ==
    /\ Serving
    /\ loaded.pc = "walk"
    /\ loaded.matches # <<>>
    /\ loaded.run.status = "running"
    /\ loaded.run.total_receivables = 2

----------------------------------------------------------------------------
(* C17: parse_file routes by the extension of the name *)

\* the extension: the name from its last dot on, nothing without a dot
Extension(filename) ==
    LET dots == {i \in 1..Len(filename) : filename[i] = "."} IN
    IF dots = {} THEN <<>>
    ELSE SubSeq(filename, CHOOSE i \in dots : \A j \in dots : j <= i, Len(filename))

\* the length of the first non-blank line of the bytes, 0 without one
FirstLineLength(content) ==
    IF "lines" \notin DOMAIN content \/ NonBlankLines(content.lines) = <<>> THEN 0
    ELSE Len(Render(NonBlankLines(content.lines)[1]))

\* the parser the extension names, "other" when it names none
ByExtension(ext) ==
    IF ext = <<".", "c", "s", "v">> THEN "parse_csv_content"
    ELSE IF ext \in {<<".", "x", "l", "s", "x">>, <<".", "x", "l", "s">>} THEN "parse_xlsx_content"
    ELSE IF ext = <<".", "o", "f", "x">> THEN "parse_ofx_content"
    ELSE IF ext \in {<<".", "r", "e", "t">>, <<".", "r", "e", "m">>, <<".", "c", "n", "a", "b">>}
    THEN "parse_cnab_content"
    ELSE "other"

(* C17: parse_file calls the parser its extension names whatever the bytes
   are; under any other extension, or none, it calls the fixed-width
   parser when the first line has 240 or 400 characters and raises the
   unsupported-format error otherwise, and there it raises in no other
   case. *)
C17_DispatchByExtension ==
    response.op = "parse_file" =>
        LET named == ByExtension(Extension(response.filename))
            fixed == FirstLineLength(response.content) \in {240, 400}
        IN  /\ named # "other" => response.called = named
            /\ named = "other" =>
                  /\ response.called = IF fixed THEN "parse_cnab_content" ELSE "ValueError"
                  /\ response.raised = ~fixed

\* a sheet under a fixed-width extension and a fixed-width file under .csv
\* were routed by their names; a 400 file without extension was parsed
C17_Witness ==
    /\ response.op = "parse_file"
    /\ \/ /\ response.filename = <<"a", ".", "c", "s", "v">>
          /\ response.content = Wide.content
       \/ /\ response.filename = <<"a">>
          /\ response.content = Narrow.content
          /\ ~response.raised

----------------------------------------------------------------------------
(* C18: the title buffer of the 240 parser *)

\* the next line is a settlement segment
SettlementNext == Reading /\ IsSegment(NextLine, "u")

\* the title buffered before line u is read
BufferBefore(u) == Cnab240Lines(Cnab240Start, SubSeq(parser.lines, 1, u - 1), 1).seg_t

\* the pairs <<title line, settlement line>> of the file: every settlement
\* segment read while a title is buffered, with that title
Pairs ==
    {<<BufferBefore(u).line, u>> :
        u \in {k \in 1..Len(parser.lines) :
                  IsSegment(LineAt(k), "u") /\ BufferBefore(k) # NoSegT}}

(* C18: whatever the segments are, no title is paired with two settlements
   and no settlement with two titles; the buffered title is always the most
   recent title segment, with no title or settlement segment after it, and
   it is the only title a settlement is paired with; a settlement read while
   no title is buffered adds no record; the buffer is empty after every
   settlement; records are added only by a settlement that finds a title. *)
C18_PairsAdjacent ==
    /\ [](\A p \in Pairs : \A q \in Pairs : (p[1] = q[1]) <=> (p[2] = q[2]))
    /\ [](parser.seg_t # NoSegT =>
            /\ parser.seg_t.line \in 1..parser.line_num
            /\ IsSegment(LineAt(parser.seg_t.line), "t")
            /\ parser.seg_t.valor_titulo
                  = CnabParseValue(Slice(LineAt(parser.seg_t.line), 81, 96)).value
            /\ \A j \in (parser.seg_t.line + 1)..parser.line_num :
                  ~IsSegment(LineAt(j), "t") /\ ~IsSegment(LineAt(j), "u"))
    /\ [][SettlementNext =>
            /\ parser'.seg_t = NoSegT
            /\ parser.seg_t = NoSegT =>
                  /\ parser'.receivables = parser.receivables
                  /\ parser'.payments = parser.payments
                  /\ parser'.errors = parser.errors
            /\ parser.seg_t # NoSegT =>
                  /\ <<parser.seg_t.line, parser'.line_num>> \in Pairs
                  /\ Len(parser'.receivables) <= Len(parser.receivables) + 1
                  /\ Len(parser'.payments) <= Len(parser.payments) + 1]_vars
    /\ [][Records(parser') # Records(parser) =>
            /\ SettlementNext /\ parser.seg_t # NoSegT
            /\ parser'.receivables =
                  Append(parser.receivables, parser'.receivables[Len(parser'.receivables)])
            /\ parser'.receivables[Len(parser'.receivables)].face_value
                  = parser.seg_t.valor_titulo]_vars

\* two titles and a settlement: the settlement took the second title and
\* the first was dropped
C18_Witness ==
    /\ parser.line_num = 3
    /\ IsSegment(LineAt(1), "t") /\ IsSegment(LineAt(2), "t") /\ IsSegment(LineAt(3), "u")
    /\ Pairs = {<<2, 3>>}
    /\ Len(parser.receivables) = 1
    /\ parser.seg_t = NoSegT

----------------------------------------------------------------------------
(* C19: what a run reports *)

\* how many entries of the match list name the receivable, the payment
TimesMatchedRecv(r) ==
    Cardinality({k \in 1..Len(response.matches) : response.matches[k].recv = r})

TimesMatchedPay(p) ==
    Cardinality({k \in 1..Len(response.matches) : response.matches[k].pay = p})

\* how many entries of a list are the record
Times(list, x) == Cardinality({k \in 1..Len(list) : list[k] = x})

\* the request that ran last has answered with its result
Answered == loaded.pc = "idle" /\ RunReturned

(* C19: in the answer of a run every loaded receivable is once in the
   match list or once in the unmatched receivables, never both, and so is
   every loaded payment with the unmatched payments; the lists name loaded
   records only; a record is unmatched exactly when the walk did not claim
   it. *)
C19_ReportPartitions ==
    Answered =>
        /\ \A r \in Range(loaded.receivables) :
              /\ TimesMatchedRecv(r) + Times(response.unmatched_receivables, r) = 1
              /\ Times(response.unmatched_receivables, r) = 1
                    <=> r \notin loaded.matched_receivables
              /\ r \in loaded.matched_receivables <=> receivables[r].status = "conciliated"
        /\ \A p \in Range(loaded.payments) :
              /\ TimesMatchedPay(p) + Times(response.unmatched_payments, p) = 1
              /\ Times(response.unmatched_payments, p) = 1
                    <=> p \notin loaded.matched_payments
              /\ p \in loaded.matched_payments <=> payments[p].match_status = "auto"
        /\ Range(response.unmatched_receivables) \subseteq Range(loaded.receivables)
        /\ Range(response.unmatched_payments) \subseteq Range(loaded.payments)
        /\ \A k \in 1..Len(response.matches) :
              /\ response.matches[k].recv \in Range(loaded.receivables)
              /\ response.matches[k].pay \in Range(loaded.payments)

\* a run matched one pair and left a receivable and a payment unmatched
C19_Witness ==
    /\ Answered
    /\ Len(response.matches) = 1
    /\ Len(response.unmatched_receivables) = 1
    /\ Len(response.unmatched_payments) = 1

----------------------------------------------------------------------------
(* C20: the rows a scoped run reads and writes *)

\* the run the step appended
NewRun == runs'[Len(runs')]

\* the row belongs to the scope the new run was given
OfRunScope(row) ==
    IF NewRun.session_id # NoneId THEN row.session_id = NewRun.session_id
    ELSE row.organization_id = NewRun.organization_id

(* C20: a run given a session or an organization loads exactly the
   'pending' receivables and the 'unmatched' payments of that scope and
   changes no other row: rows of other scopes, receivables already
   'conciliated' and payments already matched stay as they are, and every
   link the run writes goes from a loaded payment to a loaded receivable. *)
C20_ScopeFrame ==
    [][RunStep =>
        /\ (NewRun.session_id = NoneId) # (NewRun.organization_id = NoneId)
        /\ Range(loaded'.receivables) =
              {i \in 1..Len(receivables) :
                  receivables[i].status = "pending" /\ OfRunScope(receivables[i])}
        /\ Range(loaded'.payments) =
              {j \in 1..Len(payments) :
                  payments[j].match_status = "unmatched" /\ OfRunScope(payments[j])}
        /\ Len(receivables') = Len(receivables) /\ Len(payments') = Len(payments)
        /\ \A i \in 1..Len(receivables) :
              receivables'[i] # receivables[i] => i \in Range(loaded'.receivables)
        /\ \A j \in 1..Len(payments) :
              payments'[j] # payments[j] =>
                  /\ j \in Range(loaded'.payments)
                  /\ payments'[j].matched_receivable_id \in Range(loaded'.receivables)
        /\ \A k \in 1..Len(response'.matches) :
              /\ response'.matches[k].recv \in Range(loaded'.receivables)
              /\ response'.matches[k].pay \in Range(loaded'.payments)]_vars

\* a run of the organization matched its pair and left a pending receivable
\* and an unmatched payment of the same amount that belong to no organization
C20_Witness ==
    /\ RunReturned
    /\ runs # <<>>
    /\ runs[Len(runs)].organization_id # NoneId
    /\ Len(response.matches) = 1
    /\ \E i \in 1..Len(receivables) :
          receivables[i].status = "pending" /\ receivables[i].organization_id = NoneId
    /\ \E j \in 1..Len(payments) :
          /\ payments[j].match_status = "unmatched"
          /\ payments[j].organization_id = NoneId

----------------------------------------------------------------------------
(* C21: two runs of one scope that overlap *)

\* the requests whose commit the step is
Committing == {request \in Requests : loaded[request].pc = "walk" /\ loaded'[request].pc = "idle"}

\* the payment's link or the receivable's status was written before the step
ClaimedBefore(m) ==
    receivables[m.recv].status = "conciliated" \/ payments[m.pay].match_status = "auto"

(* C21: a request that commits writes every pair it claimed on the rows it
   selected, whatever the other request wrote in between: the receivable
   becomes 'conciliated' and the payment is linked to it, also when the
   receivable or the payment was claimed by the other request since the
   select; nothing is locked and no status is read again. *)
C21_WritesWithoutRecheck ==
    [][\A request \in Committing :
          /\ response'.matches = Matches(loaded[request].receivables, loaded[request].payments)
          /\ \A k \in 1..Len(response'.matches) :
                /\ receivables'[response'.matches[k].recv].status = "conciliated"
                /\ payments'[response'.matches[k].pay].match_status = "auto"
                /\ payments'[response'.matches[k].pay].matched_receivable_id = response'.matches[k].recv]_vars

\* two payments are linked to the same receivable
DoubleClaim ==
    \E i, j \in 1..Len(payments) :
        /\ i # j
        /\ payments[i].matched_receivable_id # NoneId
        /\ payments[i].matched_receivable_id = payments[j].matched_receivable_id

\* both requests committed and left two payments linked to one receivable
C21_Witness ==
    /\ Len(runs) = 2
    /\ InFlight = {}
    /\ DoubleClaim

----------------------------------------------------------------------------
(* C22: the record of a sheet row *)

\* the step reads a data row of a sheet
RowStep == parser.width = 0 /\ parser'.line_num = parser.line_num + 1

\* the row's amount cell as parse_monetary_value reads it
AmountRead == ParseMonetaryValue(parser.lines[parser.line_num + 2][1])

\* the amount is null or zero
NoAmount == AmountRead = NoneDec \/ (AmountRead # NaNDec /\ AmountRead.num = 0)

\* the signed amount is negative
NegativeAmount == AmountRead # NaNDec /\ AmountRead.num < 0

\* what the step added to each list
Added(field) == SubSeq(parser'[field], Len(parser[field]) + 1, Len(parser'[field]))

(* C22: every data row of a sheet with a non-null, non-zero amount yields
   exactly one record and no error: a payment when the file type is
   'payment' or the signed amount is negative, otherwise a receivable,
   holding the absolute value of the amount; a row with no parsable amount
   or a zero amount yields no record and no error. *)
C22_OneRecordPerAmount ==
    [][RowStep =>
        /\ Added("errors") = <<>>
        /\ NoAmount => Added("receivables") = <<>> /\ Added("payments") = <<>>
        /\ ~NoAmount =>
              IF DetectFileType(parser.lines[1]) = "payment" \/ NegativeAmount
              THEN /\ Added("receivables") = <<>>
                   /\ Len(Added("payments")) = 1
                   /\ Added("payments")[1].amount = AbsValue(AmountRead)
              ELSE /\ Added("payments") = <<>>
                   /\ Len(Added("receivables")) = 1
                   /\ Added("receivables")[1].face_value = AbsValue(AmountRead)]_vars

----------------------------------------------------------------------------
(* C23, C24: the role of a column *)

Detected == response.op = "detect_column_type"

\* the words of each rule, in the order of the rules
RuleWords ==
    <<{<<"n", "o", "m", "e">>, <<"n", "a", "m", "e">>, <<"r", "a", "z", "a", "o">>,
       <<"r", "a", "z", "ã", "o">>},
      {<<"c", "n", "p", "j">>, <<"c", "p", "f">>, <<"d", "o", "c">>},
      {<<"v", "a", "l", "o", "r">>, <<"v", "a", "l", "u", "e">>, <<"a", "m", "o", "u", "n", "t">>,
       <<"m", "o", "n", "t", "a", "n", "t", "e">>, <<"t", "o", "t", "a", "l">>,
       <<"v", "l", "_">>, <<"v", "l", "r">>},
      {<<"d", "a", "t", "a">>, <<"d", "a", "t", "e">>, <<"d", "u", "e">>, <<"d", "t", "_">>,
       <<"v", "e", "n", "c", "i", "m", "e", "n", "t", "o">>, <<"e", "m", "i", "s", "s", "a", "o">>,
       <<"p", "a", "g", "a", "m", "e", "n", "t", "o">>},
      {<<"s", "a", "c", "a", "d", "o">>, <<"p", "a", "g", "a", "d", "o", "r">>,
       <<"c", "e", "d", "e", "n", "t", "e">>, <<"d", "e", "v", "e", "d", "o", "r">>}>>

RuleRoles == <<"name", "cnpj", "value", "date">>

\* the rules that have a word in the header
RulesIn(header) ==
    {rule \in 1..Len(RuleWords) : \E word \in RuleWords[rule] : Contains(Lower(header), word)}

\* the first of them
FirstRule(header) == CHOOSE rule \in RulesIn(header) : \A other \in RulesIn(header) : rule <= other

\* the samples that are not blank, and those among them that look like an identifier
Filled == {k \in 1..Len(parser.sample_values) : Strip(parser.sample_values[k]) # <<>>}
Identifiers ==
    {k \in Filled : parser.sample_values[k] \in {SampleCnpj, SampleCpf}}

(* C23: the header rules are tried in the order name, identifier, value,
   date, ambiguous word, and the first rule with a word in the header
   decides: a header with a word of one of the first four rules gets that
   rule's role whatever other words it holds and whatever the samples are;
   the samples decide only for a header with an ambiguous word or with no
   word at all. *)
C23_HeaderRulePriority ==
    Detected =>
        /\ RulesIn(parser.header) # {} /\ FirstRule(parser.header) <= 4 =>
              response.col_type = RuleRoles[FirstRule(parser.header)]
        /\ RulesIn(parser.header) # {} /\ FirstRule(parser.header) = 5 =>
              response.col_type \in {"cnpj", "name"}
        /\ response.col_type = "unknown" => RulesIn(parser.header) = {} /\ Filled = {}

\* a header with a name word and an identifier word, over identifier samples
C23_Witness ==
    /\ Detected
    /\ {1, 2} \subseteq RulesIn(parser.header)
    /\ Identifiers # {} /\ Identifiers = Filled
    /\ response.col_type = "name"

\* the header holds an ambiguous word only
OnlyAmbiguous == RulesIn(parser.header) = {5}

(* C24 as stated: under a header with an ambiguous word only, the column is
   an identifier when at least 30% of the filled samples look like an
   identifier, exactly 30% included, and a name otherwise. *)
C24_AtLeastThirtyPercent ==
    Detected /\ OnlyAmbiguous =>
        response.col_type =
            IF 10 * Cardinality(Identifiers) >= 3 * Cardinality(Filled) THEN "cnpj" ELSE "name"

(* C24: under a header with an ambiguous word only, the column is an
   identifier when more than 30% of the filled samples look like an
   identifier and a name otherwise: at exactly 30%, and with no filled
   sample at all, it is a name. *)
C24_MoreThanThirtyPercent ==
    Detected /\ OnlyAmbiguous =>
        response.col_type =
            IF 10 * Cardinality(Identifiers) > 3 * Cardinality(Filled) THEN "cnpj" ELSE "name"

\* 3 of 10 filled samples are identifiers
C24_Witness ==
    /\ Detected /\ OnlyAmbiguous
    /\ Cardinality(Filled) = 10
    /\ Cardinality(Identifiers) = 3
    /\ response.col_type = "name"

----------------------------------------------------------------------------
(* C25: the records of a line of a 400 file *)

\* the step reads a line of a 400 file
LineStep400 == parser.width = 400 /\ parser'.line_num = parser.line_num + 1

\* the line is a detail record
DetailRead == Len(NextLine) >= 400 /\ NextLine[1] = "1"

\* the occurrence code of the line is a paid code
PaidRead == Strip(Slice(NextLine, 108, 110)) \in {<<"0", "6">>, <<"0", "7">>, <<"1", "0">>, <<"1", "7">>}

\* the settled amount of the line, in cents
SettledRead == CnabParseValue(Slice(NextLine, 253, 266))

(* C25: in the 400 parser a line that is not a detail record (record type
   other than '1', or shorter than 400) yields nothing; a detail record
   that decodes without an error yields exactly one receivable, and exactly
   one payment when its occurrence code is 06, 07, 10 or 17 and its settled
   amount is above zero, and no payment otherwise. *)
C25_DetailYieldsRecords ==
    [][LineStep400 =>
        /\ ~DetailRead =>
              /\ Added("receivables") = <<>>
              /\ Added("payments") = <<>>
              /\ Added("errors") = <<>>
        /\ DetailRead /\ Added("errors") = <<>> =>
              /\ Len(Added("receivables")) = 1
              /\ Len(Added("payments")) =
                    IF PaidRead /\ SettledRead.value > 0 THEN 1 ELSE 0]_vars

\* a file gave a paid detail its payment, and gave none to a paid detail
\* settled at zero and to an unpaid detail settled above zero
C25_Witness ==
    /\ parser.width = 400 /\ parser.done
    /\ Len(parser.lines) = 3
    /\ Len(parser.receivables) = 3
    /\ Len(parser.payments) = 1
    /\ parser.errors = <<>>
    /\ \E k \in 1..3 :
          /\ Strip(Slice(Render(parser.lines[k]), 108, 110)) = <<"0", "2">>
          /\ CnabParseValue(Slice(Render(parser.lines[k]), 253, 266)).value > 0
    /\ \E k \in 1..3 :
          /\ Strip(Slice(Render(parser.lines[k]), 108, 110)) = <<"0", "7">>
          /\ CnabParseValue(Slice(Render(parser.lines[k]), 253, 266)).value = 0

----------------------------------------------------------------------------
(* C26: what the walk leaves unclaimed *)

\* the score of a loaded receivable and a loaded payment
ScoreOf(r, p) == MatchConfidence(receivables[r], payments[p])

\* the pair is in the match list
InMatchList(r, p) ==
    \E k \in 1..Len(response.matches) :
        response.matches[k].recv = r /\ response.matches[k].pay = p

\* the receivable or the payment is in a pair of the match list whose
\* confidence is at least score
ClaimedAtLeast(r, p, score) ==
    \E k \in 1..Len(response.matches) :
        /\ response.matches[k].recv = r \/ response.matches[k].pay = p
        /\ response.matches[k].confidence >= score

(* C26: the match list of a run is in non-increasing order of confidence,
   and every loaded receivable and loaded payment that score above zero and
   are not a pair of the list have one side in a pair of the list whose
   confidence is at least their score; so no pair that scores above zero
   is left with both sides unclaimed. *)
C26_GreedyMaximal ==
    RunReturned =>
        /\ \A k \in 1..Len(response.matches) :
              /\ response.matches[k].confidence =
                    ScoreOf(response.matches[k].recv, response.matches[k].pay)
              /\ k > 1 => response.matches[k - 1].confidence >= response.matches[k].confidence
        /\ \A r \in Range(loaded.receivables), p \in Range(loaded.payments) :
              (ScoreOf(r, p) > 0 /\ ~InMatchList(r, p)) => ClaimedAtLeast(r, p, ScoreOf(r, p))

\* a run matched two pairs and left out a pair that scores above zero but
\* below the pair that took its receivable
C26_Witness ==
    /\ RunReturned
    /\ Len(response.matches) = 2
    /\ \E r \in Range(loaded.receivables), p \in Range(loaded.payments) :
          /\ ScoreOf(r, p) > 0
          /\ ~InMatchList(r, p)
          /\ \E k \in 1..2 :
                /\ response.matches[k].recv = r
                /\ response.matches[k].confidence > ScoreOf(r, p)

----------------------------------------------------------------------------
(* C27: the counts of a run *)

\* the run the answering request stored
AnsweredRun == runs[Len(runs)]

(* C27: in the run record and the summary of a finished run, matched is at
   most the smaller of the receivables and the payments loaded; the run's
   unmatched count is the receivables loaded minus matched and is not
   negative; unmatched receivables plus matched is the receivables loaded
   and unmatched payments plus matched is the payments loaded; the match
   rate, here in tenths of a percent, is matched / max(receivables, 1) x
   100 rounded to one decimal, lies between 0 and 100 and is 0 when no
   receivable was loaded. *)
C27_CountsConsistent ==
    RunReturned =>
        /\ AnsweredRun.status = "completed"
        /\ AnsweredRun.total_receivables = Len(loaded.receivables)
        /\ AnsweredRun.total_payments = Len(loaded.payments)
        /\ AnsweredRun.matched_count = Len(response.matches)
        /\ AnsweredRun.matched_count <= Min(AnsweredRun.total_receivables, AnsweredRun.total_payments)
        /\ AnsweredRun.unmatched_count = AnsweredRun.total_receivables - AnsweredRun.matched_count
        /\ AnsweredRun.unmatched_count >= 0
        /\ response.summary.total_receivables = AnsweredRun.total_receivables
        /\ response.summary.total_payments = AnsweredRun.total_payments
        /\ response.summary.matched = AnsweredRun.matched_count
        /\ response.summary.unmatched_receivables + response.summary.matched
              = response.summary.total_receivables
        /\ response.summary.unmatched_payments + response.summary.matched
              = response.summary.total_payments
        /\ response.summary.unmatched_receivables = Len(response.unmatched_receivables)
        /\ response.summary.unmatched_payments = Len(response.unmatched_payments)
        /\ response.summary.match_rate \in 0..1000
        /\ 2 * Max(response.summary.total_receivables, 1) * response.summary.match_rate
              \in (2000 * response.summary.matched - Max(response.summary.total_receivables, 1))
                  ..(2000 * response.summary.matched + Max(response.summary.total_receivables, 1))
        /\ response.summary.total_receivables = 0 => response.summary.match_rate = 0

\* a run matched one of two receivables with the only payment: 50.0 %
C27_Witness ==
    /\ RunReturned
    /\ response.summary.total_receivables = 2
    /\ response.summary.total_payments = 1
    /\ response.summary.matched = 1
    /\ response.summary.match_rate = 500
    /\ AnsweredRun.unmatched_count = 1

----------------------------------------------------------------------------
(* C28: a second run of the same scope *)

\* the step is a run that follows a run of the same scope, no other
\* request in between
RerunStep ==
    /\ RunReturned
    /\ RunStep
    /\ runs # <<>>
    /\ NewRun.session_id = runs[Len(runs)].session_id
    /\ NewRun.organization_id = runs[Len(runs)].organization_id

(* C28: a run that follows a run of the same scope with no upload in
   between changes no receivable and no payment and answers an empty match
   list; it only adds a run record.  Every receivable and payment it loads
   were left unclaimed by the run before and score 0 together. *)
C28_RerunChangesNothing ==
    [][RerunStep =>
        /\ response'.matches = <<>>
        /\ receivables' = receivables
        /\ payments' = payments
        /\ Len(runs') = Len(runs) + 1
        /\ SubSeq(runs', 1, Len(runs)) = runs
        /\ NewRun.matched_count = 0
        /\ \A r \in Range(loaded'.receivables), p \in Range(loaded'.payments) :
              MatchConfidence(receivables[r], payments[p]) = 0]_vars

\* the second run loaded a receivable and a payment the first run, which
\* matched a pair, had left
C28_Witness ==
    /\ RunReturned
    /\ Len(runs) = 2
    /\ runs[1].matched_count = 1
    /\ runs[2].total_receivables = 1
    /\ runs[2].total_payments = 1
    /\ runs[2].matched_count = 0
    /\ response.matches = <<>>

----------------------------------------------------------------------------
(* C29: links and statuses over uploads and runs served one at a time *)

\* the payments linked to the receivable
LinkedTo(r) == {j \in 1..Len(payments) : payments[j].matched_receivable_id = r}

\* stored rows stay where they are, a conciliated receivable stays
\* conciliated, a matched payment stays matched and keeps its link
OneWay ==
    /\ Len(receivables') >= Len(receivables)
    /\ Len(payments') >= Len(payments)
    /\ \A r \in 1..Len(receivables) :
          receivables[r].status = "conciliated" => receivables'[r].status = "conciliated"
    /\ \A j \in 1..Len(payments) :
          payments[j].match_status = "auto" =>
              /\ payments'[j].match_status = "auto"
              /\ payments'[j].matched_receivable_id = payments[j].matched_receivable_id

(* C29: over any sequence of uploads and runs served one after the other,
   a receivable is the link target of at most one payment, a receivable
   that is 'conciliated' never becomes 'pending' again, and a payment that
   is 'auto' never becomes 'unmatched' again and never changes its link. *)
C29_LinksOneWay ==
    /\ [](\A r \in 1..Len(receivables) : Cardinality(LinkedTo(r)) <= 1)
    /\ [][OneWay]_vars

\* a run matched a pair, an upload to the session followed, and a second
\* run loaded more rows than the first had left; the pair is still linked
C29_Witness ==
    /\ RunReturned
    /\ Len(runs) = 2
    /\ runs[1].session_id = runs[2].session_id
    /\ runs[1].matched_count = 1
    /\ runs[2].total_receivables + runs[2].total_payments
          > (runs[1].total_receivables - 1) + (runs[1].total_payments - 1)
    /\ \E r \in 1..Len(receivables) :
          /\ receivables[r].status = "conciliated"
          /\ Cardinality(LinkedTo(r)) = 1

----------------------------------------------------------------------------
(* C30: what an 'auto' payment links to *)

\* the payments with match status 'auto'
AutoPayments == {j \in 1..Len(payments) : payments[j].match_status = "auto"}

\* the rows whose status the step flipped
FlippedReceivables ==
    {r \in 1..Len(receivables) :
        receivables[r].status = "pending" /\ receivables'[r].status = "conciliated"}
FlippedPayments ==
    {j \in 1..Len(payments) :
        payments[j].match_status = "unmatched" /\ payments'[j].match_status = "auto"}

(* C30: in every state reached through uploads and runs served one at a
   time, a payment with match status 'auto' is linked to a stored
   receivable that is 'conciliated', belongs to the same session, the scope
   the runs are given, and scores above zero with the payment; and every
   run flips as many receivables to 'conciliated' as payments to 'auto',
   the number of pairs it matched. *)
C30_AutoLinksSound ==
    /\ [](\A j \in AutoPayments :
            /\ payments[j].matched_receivable_id \in 1..Len(receivables)
            /\ receivables[payments[j].matched_receivable_id].status = "conciliated"
            /\ receivables[payments[j].matched_receivable_id].session_id = payments[j].session_id
            /\ payments[j].session_id # NoneId
            /\ MatchConfidence(receivables[payments[j].matched_receivable_id], payments[j]) > 0)
    /\ [][RunStep =>
            /\ Cardinality(FlippedReceivables) = Cardinality(FlippedPayments)
            /\ Cardinality(FlippedPayments) = NewRun.matched_count
            /\ NewRun.session_id # NoneId
            /\ \A j \in FlippedPayments : payments'[j].session_id = NewRun.session_id]_vars

\* a run linked a payment of a session that also holds a receivable a
\* fixed-width file stored as conciliated, which no payment is linked to
C30_Witness ==
    /\ RunReturned
    /\ AutoPayments # {}
    /\ \E r \in 1..Len(receivables) :
          /\ receivables[r].status = "conciliated"
          /\ LinkedTo(r) = {}
          /\ \E j \in AutoPayments : payments[j].session_id = receivables[r].session_id

====
